---- MODULE Spec2Model ----
(***************************************************************************)
(* Guest endpoint (App), Host endpoint (AppBridge), PostMessageTransport   *)
(* and the Sandbox Proxy of mcp-ext-apps.                                  *)
(*                                                                         *)
(* One action is one browser task: an event handler together with the      *)
(* promise continuations it makes runnable.                                *)
(***************************************************************************)
EXTENDS Integers, Sequences, FiniteSets, TLC

\* ------------------------------------------------------------------ bounds

\* Requests one App issues in a behaviour of EngineSpec, ui/initialize included.
MaxRequests == 3

\* The same in a behaviour of Spec, where the Host and the versions vary.
MaxHandshakeRequests == 2

\* Messages posted to the Sandbox Proxy's window in a behaviour.
MaxProxyEvents == 2

\* Messages posted at the Host's window, directly or through the Sandbox
\* Proxy, in a behaviour of the Host's transport.
MaxWindowEvents == 3

\* Calls of the Host transport's close().
MaxCloseCalls == 2

\* Requests one App issues in a behaviour of BridgeSpec, ui/initialize included.
MaxBridgeRequests == 2

\* Notifications the Host sends in a behaviour of SessionSpec.
MaxNotifications == 3

\* Size observations the ResizeObserver reports in a behaviour of ResizeSpec.
MaxObservations == 3

\* Times the application assigns a callback to one notification setter.
MaxAssignments == 2

\* Pings each endpoint sends in a behaviour of PingSpec.
MaxPings == 2

\* Requests the application gives up under load: timeouts that expire and
\* abort signals that fire.
MaxAbandoned == 1

\* ------------------------------------------------------------ constants

Undefined == "undefined"
\* A value of a message field that is present and is not a string.
NotAString == "not-a-string"
NoId == -1

LATEST_PROTOCOL_VERSION == "v1"
SUPPORTED_PROTOCOL_VERSIONS == <<LATEST_PROTOCOL_VERSION>>

\* protocolVersion values a ui/initialize request can carry: the Guest is
\* built against some release of the library and sends that release's latest.
RequestedVersions == {"v1", "v2"}

\* Hosts a Guest can be embedded in: the AppBridge of this repository, and
\* hosts whose answer to ui/initialize is not the AppBridge's.
HostKinds == {"AppBridge", "MissingCapabilities", "ErrorReply", "OtherVersion"}

HostCapabilitySets == {"{}", "{tools:{}}"}
HostInfo == "H/1"

NoParams == [none |-> TRUE]

ToolNames == {"x", "y"}

Range(s) == {s[i] : i \in DOMAIN s}

Includes(s, v) == v \in Range(s)

\* ------------------------------------------------------------------ state

VARIABLES
    \* Guest App
    guestVersion,       \* LATEST_PROTOCOL_VERSION of the Guest's build
    connectPc,          \* position of App.connect()
    connectRejects,     \* times connect()'s promise was rejected
    hostCapabilities,   \* App._hostCapabilities
    hostInfo,           \* App._hostInfo
    appTransport,       \* Protocol._transport of the App: "none" | "attached"
    appNextId,          \* Protocol._requestMessageId of the App
    appPending,         \* Pending Request Table of the App: id -> request index
    appRequests,        \* requests issued by the App, in issue order
    appLog,             \* what App.connect did, in order
    appIgnored,         \* ids of the responses the engine ignored
    \* Guest PostMessageTransport
    guestListening,     \* messageListener is registered on the window
    guestCloses,        \* times PostMessageTransport.close() ran
    \* Guest App: handlers
    guestCapabilities,  \* App._capabilities
    appHandlers,        \* methods the App holds a handler for
    appEarlyHandlers,   \* the handlers held when connect() was called
    appThrown,          \* methods whose handler registration threw
    appSeen,            \* notifications the App's handlers were called with
    guestRelayed,       \* how many of proxyToInner have arrived at the Guest
    appCallback,        \* per notification method, which assignment's callback is registered
    \* Guest App: size-change reporting
    autoResize,         \* App.options.autoResize: "true", "false" or Undefined
    appBuild,           \* which of the two App sources the Guest was built from
    resizeObserving,    \* the ResizeObserver is observing html and body
    resizeScheduled,    \* `scheduled` of setupSizeChangeNotifications
    rafQueue,           \* callbacks requestAnimationFrame holds for the next frame
    frameSizeChanges,   \* size-change notifications sent in the latest frame
    observations,       \* size observations so far
    bodyRect,           \* getBoundingClientRect() of the html element, in tenths
    \* windows
    toHost,             \* messages posted to the Host window, not yet dispatched
    toGuest,            \* messages posted to the Guest window, not yet dispatched
    \* Host
    hostKind,
    bridgeCapabilities, \* AppBridge._capabilities
    appCapabilities,    \* AppBridge._appCapabilities
    bridgeListening,    \* the Host transport's listener is registered
    bridgeHandlers,     \* methods the Bridge holds a request handler for
    bridgeInitialized,  \* times AppBridge.oninitialized was invoked
    bridgeForwarding,   \* forwarded requests whose backend call is outstanding
    serverTools,        \* the backend declares the tools capability
    serverFeatures,     \* what else the backend's capabilities hold
    bridgeAborted,      \* ids of forwarded requests whose signal was aborted
    serverCalls,        \* the requests the backend received, in order
    bridgeSent,         \* notifications the Host sent, in order
    bridgeTeardown,     \* the promise of sendResourceTeardown()
    serverNotified,     \* notifications the Bridge passed to the backend, in order
    bridgePings,        \* ping requests the Bridge has sent
    bridgeConnectThrew, \* AppBridge.connect() threw
    serverAvailable,    \* the backend client has the server's capabilities
    serverEmitted,      \* list_changed notifications the backend has emitted
    serverResources,    \* what McpServer.registerResource was called with, in order
    resourceReads,      \* what the registered read handlers returned, in order
    \* Sandbox Proxy
    proxyBuild,         \* which copy of the proxy script runs
    proxyIsTop,         \* window.self === window.top
    proxyReferrer,      \* document.referrer, as its characters
    proxyAlertThrows,   \* window.top.alert(...) throws a SecurityError
    proxyPc,            \* position of the proxy script
    innerExists,        \* the nested iframe was created and appended
    innerSandbox,       \* the nested iframe's sandbox attribute
    innerSrcdoc,        \* the nested iframe's srcdoc
    innerDocFlags,      \* the sandbox attribute in force when srcdoc was set
    proxyListening,     \* the proxy's message listener is installed
    proxyEvents,        \* message events queued at the proxy's window
    proxyPosted,        \* messages posted to the proxy's window so far
    proxyToParent,      \* what the proxy posted to window.parent
    proxyToInner,       \* what the proxy posted to inner.contentWindow
    \* PostMessageTransport of the Host, on the Host's window
    pmtEventSource,     \* the expected sender given to the constructor
    pmtEvents,          \* message events queued at the Host's window
    pmtPosted,          \* messages posted directly to the Host's window so far
    pmtRelayed,         \* how many of proxyToParent have arrived as events
    pmtMessages,        \* invocations of onmessage
    pmtDropped,         \* event.source of each message the source filter dropped
    pmtErrors,          \* invocations of onerror
    pmtCloses           \* invocations of onclose

vars ==
    <<guestVersion, connectPc, connectRejects, hostCapabilities, hostInfo,
      appTransport, appNextId, appPending, appRequests, appLog, appIgnored,
      guestListening, guestCloses, guestCapabilities, appHandlers,
      appEarlyHandlers, appThrown, appSeen, guestRelayed, appCallback, autoResize,
      appBuild,
      resizeObserving, resizeScheduled, rafQueue, frameSizeChanges,
      observations, bodyRect, toHost, toGuest, hostKind,
      bridgeCapabilities, appCapabilities, bridgeListening, bridgeHandlers,
      bridgeInitialized, bridgeForwarding, serverTools, serverFeatures,
      bridgeAborted, serverCalls, bridgeSent, bridgeTeardown, serverNotified,
      bridgePings, bridgeConnectThrew, serverAvailable, serverEmitted,
      serverResources, resourceReads,
      proxyBuild, proxyIsTop, proxyReferrer, proxyAlertThrows, proxyPc,
      innerExists, innerSandbox, innerSrcdoc, innerDocFlags, proxyListening, proxyEvents,
      proxyPosted, proxyToParent, proxyToInner,
      pmtEventSource, pmtEvents, pmtPosted, pmtRelayed, pmtMessages, pmtDropped, pmtErrors,
      pmtCloses>>

appExtVars ==
    <<guestCapabilities, appHandlers, appEarlyHandlers, appThrown, appSeen,
      guestRelayed, appCallback>>

resizeVars ==
    <<autoResize, appBuild, resizeObserving, resizeScheduled, rafQueue, frameSizeChanges,
      observations, bodyRect>>

guestVars ==
    <<guestVersion, connectPc, connectRejects, hostCapabilities, hostInfo,
      appTransport, appNextId, appPending, appRequests, appLog, appIgnored,
      guestListening, guestCloses, appExtVars, resizeVars>>

\* What no message the Bridge receives changes.
hostMoreVars ==
    <<bridgePings, bridgeConnectThrew, serverAvailable, serverEmitted,
      serverResources, resourceReads>>

bridgeExtVars ==
    <<bridgeAborted, serverCalls, bridgeSent, bridgeTeardown, serverNotified,
      hostMoreVars>>

hostVars ==
    <<hostKind, bridgeCapabilities, appCapabilities, bridgeListening,
      bridgeHandlers, bridgeInitialized, bridgeForwarding, serverTools,
      serverFeatures, bridgeExtVars>>

proxyEnv == <<proxyBuild, proxyIsTop, proxyReferrer, proxyAlertThrows>>

proxyVars ==
    <<proxyBuild, proxyIsTop, proxyReferrer, proxyAlertThrows, proxyPc,
      innerExists, innerSandbox, innerSrcdoc, innerDocFlags, proxyListening, proxyEvents,
      proxyPosted, proxyToParent, proxyToInner>>

mainVars == <<guestVars, hostVars, toHost, toGuest>>

pmtVars ==
    <<pmtEventSource, pmtEvents, pmtPosted, pmtRelayed, pmtMessages, pmtDropped, pmtErrors,
      pmtCloses>>

\* ---------------------------------------------------------------- messages

Request(id, method, params) ==
    [type |-> "request", id |-> id, method |-> method, body |-> params]

Notification(method) ==
    [type |-> "notification", id |-> NoId, method |-> method, body |-> NoParams]

\* A notification with params.
NotificationWith(method, params) ==
    [type |-> "notification", id |-> NoId, method |-> method, body |-> params]

\* notifications/cancelled for the request `id`.
CancelledNotification(id) ==
    NotificationWith("notifications/cancelled", [requestId |-> id])

Response(id, result) ==
    [type |-> "response", id |-> id, method |-> "", body |-> result]

ErrorResponse(id, error) ==
    [type |-> "error", id |-> id, method |-> "", body |-> error]

\* ------------------------------------------------- Protocol Engine (Guest)

\* The outcome a promise was settled with.
Outcome(kind, value) == [kind |-> kind, value |-> value]

NewRequest(id, method, params) ==
    [id |-> id, method |-> method, params |-> params, state |-> "pending",
     outcome |-> Outcome("none", NoParams), settles |-> 0]

\* resolve()/reject() of one request's promise: the first call settles it.
Settle(reqs, k, state, outcome) ==
    [reqs EXCEPT ![k] =
        [id |-> reqs[k].id, method |-> reqs[k].method, params |-> reqs[k].params,
         state |-> IF reqs[k].state = "pending" THEN state ELSE reqs[k].state,
         outcome |-> IF reqs[k].state = "pending" THEN outcome ELSE reqs[k].outcome,
         settles |-> reqs[k].settles + 1]]

\* this._requestMessageId++ : the id the request gets, and the counter after it.
AllocateId(nextId) == nextId

\* NextRequestMessageId with the bug of not advancing the counter.
NextRequestMessageIdStuck(nextId) == nextId

NextRequestMessageId(nextId) == nextId + 1

\* RemoveEntry with the bug of leaving the entry in the table.
RemoveEntryKeeps(pending, id) == pending

RemoveEntry(pending, id) == [i \in DOMAIN pending \ {id} |-> pending[i]]

AddEntry(pending, id, k) == [i \in DOMAIN pending \cup {id} |-> IF i = id THEN k ELSE pending[i]]

\* Protocol._onclose: every pending request is rejected with "connection closed".
RejectAllPending(reqs, pending) ==
    [k \in DOMAIN reqs |->
        IF \E id \in DOMAIN pending : pending[id] = k
        THEN Settle(reqs, k, "rejected", Outcome("closed", NoParams))[k]
        ELSE reqs[k]]

\* McpUiInitializeResultSchema: the three required fields are present.
ValidInitializeResult(result) ==
    /\ {"protocolVersion", "hostCapabilities", "hostInfo"} \subseteq DOMAIN result
    /\ result.protocolVersion # Undefined
    /\ result.hostCapabilities # Undefined
    /\ result.hostInfo # Undefined

EmptyPending == [i \in {} |-> 0]

TOOL_INPUT_NOTIFICATION == "ui/notifications/tool-input"
TOOL_RESULT_NOTIFICATION == "ui/notifications/tool-result"

\* The notifications an application sets ontoolinput / ontoolresult for.
AppNotificationMethods == {TOOL_INPUT_NOTIFICATION, TOOL_RESULT_NOTIFICATION}

\* -------------------------------------------------------------------- Init

MainInit ==
    /\ guestVersion \in RequestedVersions
    /\ connectPc = "idle"
    /\ connectRejects = 0
    /\ hostCapabilities = Undefined
    /\ hostInfo = Undefined
    /\ appTransport = "none"
    /\ appNextId = 0
    /\ appPending = EmptyPending
    /\ appRequests = <<>>
    /\ appLog = <<>>
    /\ appIgnored = {}
    /\ guestListening = FALSE
    /\ guestCloses = 0
    /\ toHost = <<>>
    /\ toGuest = <<>>
    /\ hostKind \in HostKinds
    /\ bridgeCapabilities \in HostCapabilitySets
    /\ appCapabilities = Undefined
    /\ bridgeListening = FALSE
    /\ bridgeHandlers = {"ui/initialize", "ping"}
    /\ bridgeInitialized = 0
    /\ bridgeForwarding = {}
    /\ serverTools \in BOOLEAN
    /\ appHandlers = {}
    /\ appEarlyHandlers = {}
    /\ appThrown = {}
    /\ appSeen = <<>>
    /\ guestRelayed = 0
    /\ resizeObserving = FALSE
    /\ resizeScheduled = FALSE
    /\ rafQueue = 0
    /\ frameSizeChanges = 0
    /\ observations = 0
    /\ bodyRect = [width |-> 3000, height |-> 2000]
    /\ bridgeAborted = {}
    /\ serverCalls = <<>>
    /\ bridgeSent = <<>>
    /\ bridgeTeardown = "none"
    /\ appCallback = [method \in AppNotificationMethods |-> 0]
    /\ serverNotified = <<>>
    /\ bridgePings = 0
    /\ bridgeConnectThrew = FALSE
    /\ serverAvailable \in BOOLEAN
    /\ serverEmitted = 0
    /\ serverResources = <<>>
    /\ resourceReads = <<>>

\* No Sandbox Proxy is loaded.
ProxyAbsent ==
    /\ proxyBuild = "sandbox.ts"
    /\ proxyIsTop = FALSE
    /\ proxyReferrer = <<>>
    /\ proxyAlertThrows = TRUE
    /\ proxyPc = "absent"
    /\ innerExists = FALSE
    /\ innerSandbox = ""
    /\ innerSrcdoc = ""
    /\ innerDocFlags = ""
    /\ proxyListening = FALSE
    /\ proxyEvents = <<>>
    /\ proxyPosted = 0
    /\ proxyToParent = <<>>
    /\ proxyToInner = <<>>

\* No transport has been constructed on the Host's window.
PmtAbsent ==
    /\ pmtEventSource = Undefined
    /\ pmtEvents = <<>>
    /\ pmtPosted = 0
    /\ pmtRelayed = 0
    /\ pmtMessages = 0
    /\ pmtDropped = <<>>
    /\ pmtErrors = 0
    /\ pmtCloses = 0

\* A backend whose capabilities the client has, and which declares nothing
\* besides, possibly, plain tools.
PlainBackend == serverAvailable /\ serverFeatures = {}

\* An App constructed with no capabilities and without autoResize.
PlainApp ==
    /\ guestCapabilities = "{}"
    /\ autoResize = "false"
    /\ appBuild = "scheduled"

Init == MainInit /\ PlainBackend /\ PlainApp /\ ProxyAbsent /\ PmtAbsent

\* ------------------------------------------------------------ Guest actions

\* Protocol.request: a fresh id, a Pending Request Table entry, the send.
ProtocolRequest(method, params) ==
    LET id == AllocateId(appNextId) IN
    /\ appNextId' = NextRequestMessageId(appNextId)
    /\ appRequests' = Append(appRequests, NewRequest(id, method, params))
    /\ appPending' = AddEntry(appPending, id, Len(appRequests) + 1)
    /\ toHost' = Append(toHost, Request(id, method, params))

\* App.connect up to its first await of the ui/initialize result:
\* Protocol.connect takes the transport and starts it, and the request is
\* sent.
ConnectBegin ==
    /\ appTransport' = "attached"
    /\ guestListening' = TRUE
    /\ ProtocolRequest("ui/initialize",
            [appCapabilities |-> guestCapabilities, appInfo |-> "G/1",
             protocolVersion |-> guestVersion])
    /\ connectPc' = "awaitInit"
    /\ appLog' = Append(appLog, "initializeSent")
    /\ appEarlyHandlers' = appHandlers
    /\ UNCHANGED <<guestVersion, connectRejects, hostCapabilities, hostInfo,
                   appIgnored, guestCloses, toGuest>>
    /\ UNCHANGED <<guestCapabilities, appHandlers, appThrown, appCallback, appSeen, guestRelayed>>
    /\ UNCHANGED resizeVars
    /\ UNCHANGED hostVars
    /\ UNCHANGED proxyVars
    /\ UNCHANGED pmtVars

\* connect() called on a newly constructed App.
AppConnect ==
    /\ connectPc = "idle"
    /\ ConnectBegin

\* connect() called again on an App whose connection was closed and whose
\* earlier connect() has settled: neither App.connect nor
\* PostMessageTransport.start refuses.
AppReconnect ==
    /\ appTransport = "none"
    /\ guestCloses > 0
    /\ guestCloses < MaxCloseCalls
    /\ connectPc \in {"rejected", "resolved"}
    /\ ConnectBegin

\* The Guest endpoint's transport and engine state, and what it has posted
\* to the Host, as one value.
Guest ==
    [transport |-> appTransport, listening |-> guestListening,
     closes |-> guestCloses, pending |-> appPending, requests |-> appRequests,
     outbox |-> toHost]

SetGuest(g) ==
    /\ appTransport' = g.transport
    /\ guestListening' = g.listening
    /\ guestCloses' = g.closes
    /\ appPending' = g.pending
    /\ appRequests' = g.requests
    /\ toHost' = g.outbox

\* Protocol._onclose, the transport's onclose callback: the engine forgets
\* the transport and rejects what is pending.
ProtocolOnClose(g) ==
    [g EXCEPT !.transport = "none", !.pending = EmptyPending,
              !.requests = RejectAllPending(g.requests, g.pending)]

\* TransportClose with the bug of not calling onclose.
TransportCloseWithoutOnclose(g) ==
    [g EXCEPT !.listening = FALSE, !.closes = @ + 1]

\* PostMessageTransport.close: the listener is removed and onclose is called.
TransportClose(g) ==
    ProtocolOnClose([g EXCEPT !.listening = FALSE, !.closes = @ + 1])

\* Protocol.close: await this._transport?.close()
ProtocolClose(g) ==
    IF g.transport = "attached" THEN TransportClose(g) ELSE g

\* Protocol.notification on the endpoint g.
Notify(g, msg) == [g EXCEPT !.outbox = Append(@, msg)]

\* ConnectStore with the bug of leaving _hostInfo unset.
ConnectStoreWithoutInfo(result, g) ==
    /\ hostCapabilities' = result.hostCapabilities
    /\ connectPc' = "initializedSent"
    /\ appLog' = appLog \o <<"initializeResult", "initializedSent">>
    /\ SetGuest(Notify(g, Notification("ui/notifications/initialized")))
    /\ UNCHANGED <<connectRejects, hostInfo>>

\* The rest of App.connect once the ui/initialize promise is resolved: the
\* Host's capabilities and identity are stored and "initialized" is sent.
ConnectStore(result, g) ==
    /\ hostCapabilities' = result.hostCapabilities
    /\ hostInfo' = result.hostInfo
    /\ connectPc' = "initializedSent"
    /\ appLog' = appLog \o <<"initializeResult", "initializedSent">>
    /\ SetGuest(Notify(g, Notification("ui/notifications/initialized")))
    /\ UNCHANGED connectRejects

\* ConnectCatch with the bug of rethrowing without closing.
ConnectCatchWithoutClose(g) ==
    /\ SetGuest(g)
    /\ connectPc' = "rejected"
    /\ connectRejects' = connectRejects + 1
    /\ appLog' = Append(appLog, "connectRejected")
    /\ UNCHANGED <<hostCapabilities, hostInfo>>

\* The catch block of App.connect: void this.close(); throw error.
ConnectCatch(g) ==
    /\ SetGuest(ProtocolClose(g))
    /\ connectPc' = "rejected"
    /\ connectRejects' = connectRejects + 1
    /\ appLog' = Append(appLog, "connectRejected")
    /\ UNCHANGED <<hostCapabilities, hostInfo>>

\* The ui/initialize request the running connect() awaits: the latest one.
InitializeIndex(reqs) ==
    CHOOSE k \in DOMAIN reqs :
        /\ reqs[k].method = "ui/initialize"
        /\ \A j \in DOMAIN reqs : reqs[j].method = "ui/initialize" => j <= k

\* The promise continuations that run once the engine state became g: when
\* the ui/initialize promise App.connect awaits was settled, connect() goes on.
Continue(g) ==
    LET k == InitializeIndex(g.requests) IN
    IF connectPc = "awaitInit" /\ g.requests[k].state # "pending"
    THEN IF g.requests[k].state = "resolved"
         THEN ConnectStore(g.requests[k].outcome.value, g)
         ELSE ConnectCatch(g)
    ELSE /\ SetGuest(g)
         /\ UNCHANGED <<connectPc, connectRejects, hostCapabilities, hostInfo,
                        appLog>>

\* Request k's promise is settled and its table entry `id` removed.
SettleRequest(k, id, state, outcome) ==
    Continue([Guest EXCEPT !.requests = Settle(appRequests, k, state, outcome),
                           !.pending = RemoveEntry(appPending, id)])

\* The third argument of new App(...): none, or an options object.
OptionsArguments ==
    {[given |-> FALSE, autoResize |-> Undefined],
     [given |-> TRUE, autoResize |-> Undefined],
     [given |-> TRUE, autoResize |-> "true"],
     [given |-> TRUE, autoResize |-> "false"]}

\* AppOptions with the bug of a constructor that fills in no default.
AppOptionsWithoutDefault(argument) == [autoResize |-> argument.autoResize]

\* The constructor's parameter `options: AppOptions = { autoResize: true }`:
\* the default stands in for a missing argument only.
AppOptions(argument) ==
    IF argument.given
    THEN [autoResize |-> argument.autoResize]
    ELSE [autoResize |-> "true"]

\* The two sources of the App class: one debounces size reports with a
\* `scheduled` flag of setupSizeChangeNotifications, the other with a rafId
\* declared inside sendBodySizeChange.
AppBuilds == {"scheduled", "rafId"}

\* sendBodySizeChange of the build with the flag: a callback is handed to
\* requestAnimationFrame unless one is scheduled already.
SendBodySizeChangeScheduled(s) ==
    IF s.scheduled THEN s ELSE [scheduled |-> TRUE, queue |-> s.queue + 1]

\* sendBodySizeChange of the build with rafId: `let rafId = null` opens every
\* call, so no call finds a frame to cancel and each hands a callback of its
\* own to requestAnimationFrame.
SendBodySizeChangeRafId(s) ==
    [scheduled |-> s.scheduled, queue |-> s.queue + 1]

\* sendBodySizeChange of setupSizeChangeNotifications
SendBodySizeChange(s) ==
    IF appBuild = "rafId" THEN SendBodySizeChangeRafId(s) ELSE SendBodySizeChangeScheduled(s)

\* App.setupSizeChangeNotifications: let scheduled = false, the first
\* sendBodySizeChange(), the observer on html and body.
SetupSizeChangeNotifications ==
    LET s == SendBodySizeChange([scheduled |-> FALSE, queue |-> rafQueue]) IN
    /\ resizeScheduled' = s.scheduled
    /\ rafQueue' = s.queue
    /\ resizeObserving' = TRUE

\* if (value) of JavaScript, for a boolean or undefined.
Truthy(value) == value = "true"

\* App.connect after "initialized" was sent: auto-resize is set up when the
\* option asks for it, and connect()'s promise resolves.
ConnectResolve ==
    /\ connectPc = "initializedSent"
    /\ connectPc' = "resolved"
    /\ appLog' = Append(appLog, "connectResolved")
    /\ IF Truthy(autoResize)
       THEN SetupSizeChangeNotifications
       ELSE UNCHANGED <<resizeObserving, resizeScheduled, rafQueue>>
    /\ UNCHANGED <<autoResize, appBuild, frameSizeChanges, observations, bodyRect>>
    /\ UNCHANGED <<guestVersion, connectRejects, hostCapabilities, hostInfo,
                   appTransport, appNextId, appPending, appRequests, appIgnored,
                   guestListening, guestCloses, toHost, toGuest>>
    /\ UNCHANGED appExtVars
    /\ UNCHANGED hostVars
    /\ UNCHANGED proxyVars
    /\ UNCHANGED pmtVars

\* App.callServerTool
AppCallServerTool(name, limit) ==
    /\ appTransport = "attached"
    /\ Len(appRequests) < limit
    /\ ProtocolRequest("tools/call", [name |-> name])
    /\ UNCHANGED <<guestVersion, connectPc, connectRejects, hostCapabilities,
                   hostInfo, appTransport, appLog, appIgnored, guestListening,
                   guestCloses, toGuest>>
    /\ UNCHANGED appExtVars
    /\ UNCHANGED resizeVars
    /\ UNCHANGED hostVars
    /\ UNCHANGED proxyVars
    /\ UNCHANGED pmtVars

\* The result a response handler hands to its promise: the result is parsed
\* with the request's result schema first.
ResponseOutcome(request, msg) ==
    IF msg.type = "error" THEN Outcome("error", msg.body)
    ELSE IF request.method = "ui/initialize" /\ ~ValidInitializeResult(msg.body)
         THEN Outcome("invalid", msg.body)
         ELSE Outcome("result", msg.body)

\* MatchResponse with the bug of correlating by arrival order: the oldest
\* entry takes the response.
MatchResponseByArrival(pending, msg) ==
    IF DOMAIN pending = {} THEN 0
    ELSE pending[CHOOSE i \in DOMAIN pending : \A j \in DOMAIN pending : i <= j]

\* The request a response belongs to: the Pending Request Table's entry for
\* the response's id (0 when there is none).
MatchResponse(pending, msg) ==
    IF msg.id \in DOMAIN pending THEN pending[msg.id] ELSE 0

\* Protocol._onresponse: the matching entry is removed and its promise
\* settled; a response without one is ignored.
OnResponse(msg) ==
    LET k == MatchResponse(appPending, msg) IN
    IF k = 0
    THEN /\ appIgnored' = appIgnored \cup {msg.id}
         /\ UNCHANGED <<connectPc, connectRejects, hostCapabilities, hostInfo,
                        appTransport, appPending, appRequests, appLog,
                        guestListening, guestCloses, toHost>>
    ELSE LET outcome == ResponseOutcome(appRequests[k], msg) IN
         /\ SettleRequest(k, msg.id,
                          IF outcome.kind = "result" THEN "resolved" ELSE "rejected",
                          outcome)
         /\ UNCHANGED appIgnored

\* Seen with the bug of an engine that keeps the callback assigned first.
SeenFirstCallback(msg) ==
    [method |-> msg.method, params |-> msg.body, callback |-> 1]

\* A call of a notification handler of the App: the callback registered
\* for the method, and what it is called with.
Seen(msg) ==
    [method |-> msg.method, params |-> msg.body,
     callback |-> IF msg.method \in DOMAIN appCallback THEN appCallback[msg.method] ELSE 1]

\* OnNotification with the bug of an endpoint that hands notifications to
\* its handlers only once connect() has resolved.
OnNotificationWhenConnected(msg) ==
    /\ appSeen' =
            IF msg.method \in appHandlers /\ connectPc = "resolved"
            THEN Append(appSeen, Seen(msg)) ELSE appSeen
    /\ UNCHANGED <<connectPc, connectRejects, hostCapabilities, hostInfo,
                   appTransport, appPending, appRequests, appLog, appIgnored,
                   guestListening, guestCloses, toHost>>

\* Protocol._onnotification: the handler registered for the method is
\* called; a notification without one is ignored.
OnNotification(msg) ==
    /\ appSeen' =
            IF msg.method \in appHandlers
            THEN Append(appSeen, Seen(msg)) ELSE appSeen
    /\ UNCHANGED <<connectPc, connectRejects, hostCapabilities, hostInfo,
                   appTransport, appPending, appRequests, appLog, appIgnored,
                   guestListening, guestCloses, toHost>>

\* The result of a handler an application registered.
HandlerResult == [content |-> "{}"]

\* OnRequest with the bug of an App without the constructor's ping handler.
OnRequestWithoutPing(msg) ==
    /\ toHost' =
            Append(toHost,
                   IF msg.method \in appHandlers
                   THEN Response(msg.id, HandlerResult)
                   ELSE ErrorResponse(msg.id, [code |-> "MethodNotFound"]))
    /\ UNCHANGED <<connectPc, connectRejects, hostCapabilities, hostInfo,
                   appTransport, appPending, appRequests, appLog, appIgnored,
                   guestListening, guestCloses, appSeen>>

\* Protocol._onrequest: the registered handler's result is sent back (ping
\* has a built-in handler); without a handler the engine answers with an
\* error.
OnRequest(msg) ==
    /\ toHost' =
            Append(toHost,
                   IF msg.method \in appHandlers \cup {"ping"}
                   THEN Response(msg.id, HandlerResult)
                   ELSE ErrorResponse(msg.id, [code |-> "MethodNotFound"]))
    /\ UNCHANGED <<connectPc, connectRejects, hostCapabilities, hostInfo,
                   appTransport, appPending, appRequests, appLog, appIgnored,
                   guestListening, guestCloses, appSeen>>

\* Protocol's onmessage, as the App has it.
GuestOnMessage(msg) ==
    IF msg.type \in {"response", "error"}
    THEN OnResponse(msg) /\ UNCHANGED appSeen
    ELSE IF msg.type = "notification"
         THEN OnNotification(msg)
         ELSE OnRequest(msg)

\* One message event on the Guest's window, the Host's iframe: the
\* PostMessageTransport's messageListener, when registered, hands the message
\* to the engine.
GuestDispatch ==
    /\ proxyPc = "absent"
    /\ toGuest # <<>>
    /\ toGuest' = Tail(toGuest)
    /\ IF guestListening
       THEN GuestOnMessage(Head(toGuest))
       ELSE UNCHANGED <<connectPc, connectRejects, hostCapabilities, hostInfo,
                        appTransport, appPending, appRequests, appLog, appIgnored,
                        guestListening, guestCloses, toHost, appSeen>>
    /\ UNCHANGED <<guestVersion, appNextId>>
    /\ UNCHANGED <<guestCapabilities, appHandlers, appEarlyHandlers, appThrown, appCallback,
                   guestRelayed>>
    /\ UNCHANGED resizeVars
    /\ UNCHANGED hostVars
    /\ UNCHANGED proxyVars
    /\ UNCHANGED pmtVars

\* The request's timeout expires before a response arrived.
RequestTimeout(id) ==
    /\ id \in DOMAIN appPending
    /\ SettleRequest(appPending[id], id, "rejected", Outcome("timeout", NoParams))
    /\ UNCHANGED <<guestVersion, appNextId, appIgnored, toGuest>>
    /\ UNCHANGED appExtVars
    /\ UNCHANGED resizeVars
    /\ UNCHANGED hostVars
    /\ UNCHANGED proxyVars
    /\ UNCHANGED pmtVars

\* The request's abort signal fires before a response arrived: the peer is
\* told with notifications/cancelled, the promise is rejected and the entry
\* removed.
RequestAbort(id) ==
    /\ id \in DOMAIN appPending
    /\ Continue(Notify([Guest EXCEPT
                            !.requests = Settle(appRequests, appPending[id], "rejected",
                                                Outcome("cancelled", NoParams)),
                            !.pending = RemoveEntry(appPending, id)],
                       CancelledNotification(id)))
    /\ UNCHANGED <<guestVersion, appNextId, appIgnored, toGuest>>
    /\ UNCHANGED appExtVars
    /\ UNCHANGED resizeVars
    /\ UNCHANGED hostVars
    /\ UNCHANGED proxyVars
    /\ UNCHANGED pmtVars

\* The requests that ended by their timeout or their abort signal.
Abandoned ==
    Cardinality({k \in DOMAIN appRequests :
                    appRequests[k].outcome.kind \in {"timeout", "cancelled"}})

\* A timeout expires, while the application gives up no more than
\* MaxAbandoned requests.
LimitedTimeout(id) ==
    /\ Abandoned < MaxAbandoned
    /\ RequestTimeout(id)

\* An abort signal fires, under the same limit.
LimitedAbort(id) ==
    /\ Abandoned < MaxAbandoned
    /\ RequestAbort(id)

\* Protocol.close called by the application on a connected App.
AppClose ==
    /\ appTransport = "attached"
    /\ Continue(ProtocolClose(Guest))
    /\ UNCHANGED <<guestVersion, appNextId, appIgnored, toGuest>>
    /\ UNCHANGED appExtVars
    /\ UNCHANGED resizeVars
    /\ UNCHANGED hostVars
    /\ UNCHANGED proxyVars
    /\ UNCHANGED pmtVars

\* ------------------------------------------------------------- Host actions

\* NegotiateVersion with the bug of echoing whatever was requested.
NegotiateVersionEcho(requestedVersion) == requestedVersion

\* The version AppBridge._oninitialize answers with.
NegotiateVersion(requestedVersion) ==
    IF Includes(SUPPORTED_PROTOCOL_VERSIONS, requestedVersion)
    THEN requestedVersion
    ELSE LATEST_PROTOCOL_VERSION

\* AppBridge._oninitialize: the result it returns.
OnInitialize(request) ==
    [protocolVersion |-> NegotiateVersion(request.body.protocolVersion),
     hostCapabilities |-> bridgeCapabilities,
     hostInfo |-> HostInfo]

\* What a Host answers to ui/initialize: the AppBridge answers with
\* _oninitialize's result; the other hosts are the malformed, failing and
\* foreign-version answers a Guest can meet.
HostInitializeAnswer(kind, request) ==
    CASE kind = "AppBridge" -> Response(request.id, OnInitialize(request))
      [] kind = "MissingCapabilities" ->
            Response(request.id,
                     [protocolVersion |-> request.body.protocolVersion,
                      hostCapabilities |-> Undefined, hostInfo |-> HostInfo])
      [] kind = "ErrorReply" ->
            ErrorResponse(request.id, [code |-> "InternalError"])
      [] kind = "OtherVersion" ->
            Response(request.id,
                     [protocolVersion |-> "v0",
                      hostCapabilities |-> bridgeCapabilities,
                      hostInfo |-> HostInfo])

\* The backend's result of tools/call.
ToolResult(name) == [content |-> name]

\* The backend's result of a forwarded request.
BackendResult(f) ==
    IF f.method = "tools/call" THEN ToolResult(f.name) ELSE [content |-> f.method]

\* The requests AppBridge.connect can install a forwarder for.
ForwardableRequests ==
    {"tools/call", "resources/list", "resources/templates/list", "prompts/list"}

\* The notifications AppBridge.connect can install a forwarder for.
ForwardableNotifications ==
    {"notifications/tools/list_changed", "notifications/resources/list_changed",
     "notifications/prompts/list_changed"}

\* Forwarders with the bug of resource forwarders installed whatever the
\* backend declares.
ForwardersResourcesAlways(tools, features) ==
    (IF tools
     THEN {"tools/call"} \cup
          (IF "tools.listChanged" \in features
           THEN {"notifications/tools/list_changed"} ELSE {})
     ELSE {})
    \cup {"resources/list", "resources/templates/list"}
    \cup (IF "resources.listChanged" \in features
          THEN {"notifications/resources/list_changed"} ELSE {})
    \cup (IF "prompts" \in features
          THEN {"prompts/list"} \cup
               (IF "prompts.listChanged" \in features
                THEN {"notifications/prompts/list_changed"} ELSE {})
          ELSE {})

\* The methods AppBridge.connect registers a forwarder for, given the
\* backend's capabilities.
Forwarders(tools, features) ==
    (IF tools
     THEN {"tools/call"} \cup
          (IF "tools.listChanged" \in features
           THEN {"notifications/tools/list_changed"} ELSE {})
     ELSE {})
    \cup (IF "resources" \in features
          THEN {"resources/list", "resources/templates/list"} \cup
               (IF "resources.listChanged" \in features
                THEN {"notifications/resources/list_changed"} ELSE {})
          ELSE {})
    \cup (IF "prompts" \in features
          THEN {"prompts/list"} \cup
               (IF "prompts.listChanged" \in features
                THEN {"notifications/prompts/list_changed"} ELSE {})
          ELSE {})

\* ConnectOutcome with the bug of no check of the server capabilities.
ConnectOutcomeUnchecked(available) ==
    [threw |-> FALSE,
     handlers |-> bridgeHandlers \cup Forwarders(serverTools, serverFeatures),
     listening |-> TRUE]

\* What AppBridge.connect does: it throws when the client has no server
\* capabilities; otherwise it installs the forwarders for what the backend
\* declares and starts the transport.
ConnectOutcome(available) ==
    IF ~available
    THEN [threw |-> TRUE, handlers |-> bridgeHandlers, listening |-> bridgeListening]
    ELSE [threw |-> FALSE,
          handlers |-> bridgeHandlers \cup Forwarders(serverTools, serverFeatures),
          listening |-> TRUE]

\* AppBridge.connect, called once.
BridgeConnect ==
    /\ ~bridgeListening
    /\ ~bridgeConnectThrew
    /\ LET outcome == ConnectOutcome(serverAvailable) IN
       /\ bridgeConnectThrew' = outcome.threw
       /\ bridgeHandlers' = outcome.handlers
       /\ bridgeListening' = outcome.listening
    /\ UNCHANGED <<hostKind, bridgeCapabilities, appCapabilities,
                   bridgeInitialized, bridgeForwarding, serverTools, serverFeatures>>
    /\ UNCHANGED <<bridgeAborted, serverCalls, bridgeSent, bridgeTeardown, serverNotified,
                   bridgePings, serverAvailable, serverEmitted, serverResources,
                   resourceReads>>
    /\ UNCHANGED guestVars
    /\ UNCHANGED proxyVars
    /\ UNCHANGED pmtVars
    /\ UNCHANGED <<toHost, toGuest>>

\* A ui/initialize request reaches the Host.
HostInitialize(msg) ==
    /\ appCapabilities' =
            IF hostKind = "AppBridge" THEN msg.body.appCapabilities
            ELSE appCapabilities
    /\ toGuest' = Append(toGuest, HostInitializeAnswer(hostKind, msg))
    /\ UNCHANGED <<bridgeInitialized, bridgeForwarding, bridgeAborted, serverCalls,
                   bridgeTeardown, serverNotified>>

\* What forwardRequest's handler starts: this._client.request(request, ...),
\* one call of the backend for the Guest's request.
ForwardedCall(msg) ==
    [id |-> msg.id, method |-> msg.method, name |-> msg.body.name]

\* A request of another method reaches the Host: the forwarder registered
\* for it passes it to the backend, another registered handler answers it;
\* without a handler the engine answers with an error.
HostRequest(msg) ==
    /\ IF msg.method \in bridgeHandlers \cap ForwardableRequests
       THEN /\ bridgeForwarding' = bridgeForwarding \cup {ForwardedCall(msg)}
            /\ serverCalls' = Append(serverCalls, ForwardedCall(msg))
            /\ UNCHANGED toGuest
       ELSE /\ toGuest' =
                    Append(toGuest,
                           IF msg.method \in bridgeHandlers
                           THEN Response(msg.id, HandlerResult)
                           ELSE ErrorResponse(msg.id, [code |-> "MethodNotFound"]))
            /\ UNCHANGED <<bridgeForwarding, serverCalls>>
    /\ UNCHANGED <<appCapabilities, bridgeInitialized, bridgeAborted, bridgeTeardown, serverNotified>>

\* AbortForwarded with the bug of a forwarder that does not pass the
\* handler's signal on: the backend call goes on.
AbortForwardedWithoutSignal(forwarding, id) == forwarding

\* The forwarder's backend calls once the signal of the Guest's request `id`
\* was aborted: forwardRequest gave extra.signal to the backend request, which
\* is aborted with it.
AbortForwarded(forwarding, id) == {f \in forwarding : f.id # id}

\* notifications/cancelled reaches the Host: the signal of the request it
\* names, when that request is still being handled, is aborted, and nothing
\* is answered to it.
OnCancelled(msg) ==
    /\ bridgeForwarding' = AbortForwarded(bridgeForwarding, msg.body.requestId)
    /\ bridgeAborted' =
            bridgeAborted \cup
                {f.id : f \in {g \in bridgeForwarding : g.id = msg.body.requestId}}
    /\ UNCHANGED <<appCapabilities, bridgeInitialized, serverCalls, bridgeTeardown, serverNotified,
                   toGuest>>

\* ForwardNotification with the bug of a Bridge that passes every
\* list_changed notification on, whatever the backend declared.
ForwardNotificationAlways(notified, msg) ==
    IF msg.method \in ForwardableNotifications
    THEN Append(notified, msg.method) ELSE notified

\* forwardNotification's handler: a notification whose forwarder connect()
\* installed is passed to the backend client; the engine ignores one without
\* a handler.
ForwardNotification(notified, msg) ==
    IF msg.method \in bridgeHandlers \cap ForwardableNotifications
    THEN Append(notified, msg.method) ELSE notified

\* A notification reaches the Host: "initialized" invokes oninitialized, a
\* list_changed notification its forwarder.
HostNotification(msg) ==
    IF msg.method = "notifications/cancelled"
    THEN OnCancelled(msg)
    ELSE /\ bridgeInitialized' =
                 IF msg.method = "ui/notifications/initialized"
                 THEN bridgeInitialized + 1 ELSE bridgeInitialized
         /\ serverNotified' = ForwardNotification(serverNotified, msg)
         /\ UNCHANGED <<appCapabilities, bridgeForwarding, bridgeAborted,
                        serverCalls, bridgeTeardown, toGuest>>

\* The id of the Bridge's first request.
TeardownId == 0

\* A response reaches the Host: the promise of the request it answers is
\* settled; a response without a pending request is ignored.
HostResponse(msg) ==
    /\ bridgeTeardown' =
            IF bridgeTeardown = "pending" /\ msg.id = TeardownId
            THEN IF msg.type = "response" THEN "resolved" ELSE "rejected"
            ELSE bridgeTeardown
    /\ UNCHANGED <<appCapabilities, bridgeInitialized, bridgeForwarding,
                   bridgeAborted, serverCalls, serverNotified, toGuest>>

\* Protocol's onmessage, as the bridge has it.
BridgeOnMessage(msg) ==
    IF msg.type = "request" /\ msg.method = "ui/initialize"
    THEN HostInitialize(msg)
    ELSE IF msg.type = "request"
         THEN HostRequest(msg)
    ELSE IF msg.type = "notification"
         THEN HostNotification(msg)
         ELSE HostResponse(msg)

\* One message event on the Host's window, posted by the Guest in the
\* Host's iframe.
HostDispatch ==
    /\ proxyPc = "absent"
    /\ toHost # <<>>
    /\ toHost' = Tail(toHost)
    /\ IF ~bridgeListening
       THEN UNCHANGED <<appCapabilities, bridgeInitialized, bridgeForwarding,
                        bridgeAborted, serverCalls, bridgeTeardown, serverNotified, toGuest>>
       ELSE BridgeOnMessage(Head(toHost))
    /\ UNCHANGED <<hostKind, bridgeCapabilities, bridgeListening, bridgeHandlers,
                   serverTools, serverFeatures, bridgeSent, hostMoreVars>>
    /\ UNCHANGED guestVars
    /\ UNCHANGED proxyVars
    /\ UNCHANGED pmtVars

\* BackendComplete with the bug of a forwarder that answers with a result
\* of its own making instead of the backend's.
BackendCompleteAltered(f, ok) ==
    /\ f \in bridgeForwarding
    /\ bridgeForwarding' = bridgeForwarding \ {f}
    /\ toGuest' =
            Append(toGuest,
                   IF ok THEN Response(f.id, [content |-> "{}"])
                   ELSE ErrorResponse(f.id, [code |-> "ToolFailed"]))
    /\ UNCHANGED <<hostKind, bridgeCapabilities, appCapabilities, bridgeListening,
                   bridgeHandlers, bridgeInitialized, serverTools, serverFeatures>>
    /\ UNCHANGED bridgeExtVars
    /\ UNCHANGED guestVars
    /\ UNCHANGED proxyVars
    /\ UNCHANGED pmtVars
    /\ UNCHANGED toHost

\* BackendComplete with the bug of a failed call that takes the connection
\* down instead of being answered with an error.
BackendCompleteClosing(f, ok) ==
    /\ f \in bridgeForwarding
    /\ bridgeForwarding' = bridgeForwarding \ {f}
    /\ toGuest' = IF ok THEN Append(toGuest, Response(f.id, BackendResult(f))) ELSE toGuest
    /\ bridgeListening' = (ok /\ bridgeListening)
    /\ UNCHANGED <<hostKind, bridgeCapabilities, appCapabilities,
                   bridgeHandlers, bridgeInitialized, serverTools, serverFeatures>>
    /\ UNCHANGED bridgeExtVars
    /\ UNCHANGED guestVars
    /\ UNCHANGED proxyVars
    /\ UNCHANGED pmtVars
    /\ UNCHANGED toHost

\* The backend answers a forwarded call; the forwarder's result, or its
\* failure, becomes the response to the Guest's request.
BackendComplete(f, ok) ==
    /\ f \in bridgeForwarding
    /\ bridgeForwarding' = bridgeForwarding \ {f}
    /\ toGuest' =
            Append(toGuest,
                   IF ok THEN Response(f.id, BackendResult(f))
                   ELSE ErrorResponse(f.id, [code |-> "ToolFailed"]))
    /\ UNCHANGED <<hostKind, bridgeCapabilities, appCapabilities, bridgeListening,
                   bridgeHandlers, bridgeInitialized, serverTools, serverFeatures>>
    /\ UNCHANGED bridgeExtVars
    /\ UNCHANGED guestVars
    /\ UNCHANGED proxyVars
    /\ UNCHANGED pmtVars
    /\ UNCHANGED toHost

Next ==
    \/ AppConnect
    \/ ConnectResolve
    \/ \E name \in ToolNames : AppCallServerTool(name, MaxHandshakeRequests)
    \/ GuestDispatch
    \/ \E id \in DOMAIN appPending : RequestTimeout(id)
    \/ \E id \in DOMAIN appPending : RequestAbort(id)
    \/ AppClose
    \/ BridgeConnect
    \/ HostDispatch
    \/ \E f \in bridgeForwarding, ok \in BOOLEAN : BackendComplete(f, ok)

\* The handshake: every Host kind, every requested version.
Spec == Init /\ [][Next]_vars

\* The Protocol Engine under load: a Guest of this library's version and an
\* AppBridge, with more requests in flight.
EngineInit ==
    /\ Init
    /\ hostKind = "AppBridge"
    /\ guestVersion = LATEST_PROTOCOL_VERSION
    /\ bridgeCapabilities = "{tools:{}}"

EngineNext ==
    \/ AppConnect
    \/ ConnectResolve
    \/ \E name \in ToolNames : AppCallServerTool(name, MaxRequests)
    \/ GuestDispatch
    \/ \E id \in DOMAIN appPending : LimitedTimeout(id)
    \/ \E id \in DOMAIN appPending : LimitedAbort(id)
    \/ AppClose
    \/ BridgeConnect
    \/ HostDispatch
    \/ \E f \in bridgeForwarding, ok \in BOOLEAN : BackendComplete(f, ok)

EngineSpec == EngineInit /\ [][EngineNext]_vars

\* ------------------------------------------------------------ Sandbox Proxy

\* ""
RefEmpty ==
    <<>>

\* "http://localhost:8080/"
RefLocalhostPort ==
    <<"h", "t", "t", "p", ":", "/", "/", "l", "o", "c", "a", "l", "h", "o", "s", "t", ":", "8", "0", "8", "0", "/">>

\* "http://localhost"
RefLocalhostBare ==
    <<"h", "t", "t", "p", ":", "/", "/", "l", "o", "c", "a", "l", "h", "o", "s", "t">>

\* "http://127.0.0.1/x"
RefLoopbackPath ==
    <<"h", "t", "t", "p", ":", "/", "/", "1", "2", "7", ".", "0", ".", "0", ".", "1", "/", "x">>

\* "https://localhost/"
RefHttps ==
    <<"h", "t", "t", "p", "s", ":", "/", "/", "l", "o", "c", "a", "l", "h", "o", "s", "t", "/">>

\* "http://localhost.evil.com/"
RefLocalhostPrefix ==
    <<"h", "t", "t", "p", ":", "/", "/", "l", "o", "c", "a", "l", "h", "o", "s", "t", ".", "e", "v", "i", "l", ".", "c", "o", "m", "/">>

\* "http://evil.com/"
RefForeign ==
    <<"h", "t", "t", "p", ":", "/", "/", "e", "v", "i", "l", ".", "c", "o", "m", "/">>

\* "http://127x0.0.1/"
RefLoopbackLike ==
    <<"h", "t", "t", "p", ":", "/", "/", "1", "2", "7", "x", "0", ".", "0", ".", "1", "/">>

\* "http://evil.com/?http://localhost/"
RefEmbedded ==
    <<"h", "t", "t", "p", ":", "/", "/", "e", "v", "i", "l", ".", "c", "o", "m", "/", "?", "h", "t", "t", "p", ":", "/", "/", "l", "o", "c", "a", "l", "h", "o", "s", "t", "/">>

Referrers ==
    {RefEmpty, RefLocalhostPort, RefLocalhostBare, RefLoopbackPath, RefHttps,
     RefLocalhostPrefix, RefForeign, RefLoopbackLike, RefEmbedded}

StartsWith(s, prefix) ==
    Len(s) >= Len(prefix) /\ SubSeq(s, 1, Len(prefix)) = prefix

\* The origins the pattern names: http://localhost and http://127.0.0.1
AllowedOrigins ==
    {<<"h", "t", "t", "p", ":", "/", "/", "l", "o", "c", "a", "l", "h", "o", "s", "t">>,
     <<"h", "t", "t", "p", ":", "/", "/", "1", "2", "7", ".", "0", ".", "0", ".", "1">>}

\* MatchesAllowed with the bug of a pattern that lacks the (:|\/|$) group.
MatchesAllowedPrefixOnly(referrer) ==
    \E origin \in AllowedOrigins : StartsWith(referrer, origin)

\* referrer.match(/^http:\/\/(localhost|127\.0\.0\.1)(:|\/|$)/)
MatchesAllowed(referrer) ==
    \E origin \in AllowedOrigins :
        /\ StartsWith(referrer, origin)
        /\ \/ Len(referrer) = Len(origin)
           \/ referrer[Len(origin) + 1] \in {":", "/"}

ProxyBuilds == {"sandbox.ts", "PLAN.md"}

RESOURCE_READY_NOTIFICATION == "ui/notifications/sandbox-resource-ready"
PROXY_READY_NOTIFICATION == "ui/notifications/sandbox-proxy-ready"

DefaultSandbox == "allow-scripts allow-same-origin allow-forms"

\* event.data of the messages posted to the proxy: the control message with
\* and without a replacement sandbox attribute, and protocol messages.
ProxyPayloads ==
    {[method |-> RESOURCE_READY_NOTIFICATION, html |-> "<html>", sandbox |-> "allow-scripts"],
     [method |-> RESOURCE_READY_NOTIFICATION, html |-> "<html>", sandbox |-> Undefined],
     [method |-> RESOURCE_READY_NOTIFICATION, html |-> "<html>", sandbox |-> NotAString],
     [method |-> "ui/initialize", html |-> Undefined, sandbox |-> Undefined],
     [method |-> "ui/notifications/tool-input", html |-> Undefined, sandbox |-> Undefined]}

ProxyReadyMessage ==
    [method |-> PROXY_READY_NOTIFICATION, html |-> Undefined, sandbox |-> Undefined]

\* event.source of a message at the proxy's window.
EventSources == {"parent", "inner", "other"}

\* How the proxy can be loaded.
ProxyLoaded ==
    /\ proxyBuild \in ProxyBuilds
    /\ proxyIsTop \in BOOLEAN
    /\ proxyReferrer \in Referrers
    /\ proxyAlertThrows \in BOOLEAN
    /\ proxyPc = "checkEmbedded"
    /\ innerExists = FALSE
    /\ innerSandbox = ""
    /\ innerSrcdoc = ""
    /\ innerDocFlags = ""
    /\ proxyListening = FALSE
    /\ proxyEvents = <<>>
    /\ proxyPosted = 0
    /\ proxyToParent = <<>>
    /\ proxyToInner = <<>>

\* The endpoints play no part while the proxy is looked at.
MainIdle ==
    /\ MainInit
    /\ guestVersion = LATEST_PROTOCOL_VERSION
    /\ hostKind = "AppBridge"
    /\ bridgeCapabilities = "{}"
    /\ serverTools = FALSE
    /\ PlainBackend
    /\ PlainApp

SandboxInit == MainIdle /\ ProxyLoaded /\ PmtAbsent

ProxyStep(from, ok, to) ==
    /\ proxyPc = from
    /\ proxyPc' = IF ok THEN to ELSE "failed"
    /\ UNCHANGED proxyEnv
    /\ UNCHANGED mainVars
    /\ UNCHANGED pmtVars

\* if (window.self === window.top) throw
ProxyCheckEmbedded ==
    /\ ProxyStep("checkEmbedded", ~proxyIsTop, "checkReferrer")
    /\ UNCHANGED <<innerExists, innerSandbox, innerSrcdoc, innerDocFlags, proxyListening,
                   proxyEvents, proxyPosted, proxyToParent, proxyToInner>>

\* if (!document.referrer) throw
ProxyCheckReferrer ==
    /\ ProxyStep("checkReferrer", proxyReferrer # <<>>, "checkAllowed")
    /\ UNCHANGED <<innerExists, innerSandbox, innerSrcdoc, innerDocFlags, proxyListening,
                   proxyEvents, proxyPosted, proxyToParent, proxyToInner>>

\* if (!document.referrer.match(...)) throw
ProxyCheckAllowed ==
    /\ ProxyStep("checkAllowed", MatchesAllowed(proxyReferrer), "selfTest")
    /\ UNCHANGED <<innerExists, innerSandbox, innerSrcdoc, innerDocFlags, proxyListening,
                   proxyEvents, proxyPosted, proxyToParent, proxyToInner>>

\* Whether the script goes on after the self-test.  sandbox.ts throws its
\* error inside the try block, where its own catch swallows it; the copy in
\* PLAN.md throws "FAIL" and rethrows it from the catch.
SelfTestPasses(build, alertThrows) ==
    IF build = "sandbox.ts" THEN TRUE ELSE alertThrows

\* try { window.top.alert(...); throw ... } catch (e) { ... }
ProxySelfTest ==
    /\ ProxyStep("selfTest", SelfTestPasses(proxyBuild, proxyAlertThrows), "createInner")
    /\ UNCHANGED <<innerExists, innerSandbox, innerSrcdoc, innerDocFlags, proxyListening,
                   proxyEvents, proxyPosted, proxyToParent, proxyToInner>>

\* document.createElement("iframe") ... document.body.appendChild(inner)
ProxyCreateInner ==
    /\ ProxyStep("createInner", TRUE, "addListener")
    /\ innerExists' = TRUE
    /\ innerSandbox' = DefaultSandbox
    /\ UNCHANGED <<innerSrcdoc, innerDocFlags, proxyListening, proxyEvents,
                   proxyPosted, proxyToParent, proxyToInner>>

\* ProxyAddListener with the bug of a listener that is installed too late
\* to be there when proxy-ready is posted.
ProxyAddListenerLate ==
    /\ ProxyStep("addListener", TRUE, "postReady")
    /\ UNCHANGED <<innerExists, innerSandbox, innerSrcdoc, innerDocFlags, proxyListening,
                   proxyEvents, proxyPosted, proxyToParent, proxyToInner>>

\* window.addEventListener("message", ...)
ProxyAddListener ==
    /\ ProxyStep("addListener", TRUE, "postReady")
    /\ proxyListening' = TRUE
    /\ UNCHANGED <<innerExists, innerSandbox, innerSrcdoc, innerDocFlags, proxyEvents,
                   proxyPosted, proxyToParent, proxyToInner>>

\* window.parent.postMessage({method: "ui/notifications/sandbox-proxy-ready"})
ProxyPostReady ==
    /\ ProxyStep("postReady", TRUE, "running")
    /\ proxyToParent' = Append(proxyToParent, ProxyReadyMessage)
    /\ UNCHANGED <<innerExists, innerSandbox, innerSrcdoc, innerDocFlags, proxyListening,
                   proxyEvents, proxyPosted, proxyToInner>>

\* Some window posts a message to the proxy's window: the Host at any time,
\* the nested frame once it exists.
PostToProxy(source, data) ==
    /\ proxyPc # "absent"
    /\ proxyPosted < MaxProxyEvents
    /\ source = "inner" => innerExists
    /\ proxyEvents' = Append(proxyEvents, [source |-> source, data |-> data])
    /\ proxyPosted' = proxyPosted + 1
    /\ UNCHANGED <<proxyPc, innerExists, innerSandbox, innerSrcdoc, innerDocFlags,
                   proxyListening, proxyToParent, proxyToInner>>
    /\ UNCHANGED proxyEnv
    /\ UNCHANGED mainVars
    /\ UNCHANGED pmtVars

\* typeof v === "string", over the values a message field takes here.
IsString(v) == v \notin {Undefined, NotAString}

\* The nested iframe as the listener sees it.
Inner == [sandbox |-> innerSandbox, srcdoc |-> innerSrcdoc, docFlags |-> innerDocFlags]

\* ApplyResourceReady with the bug of loading the document before the
\* sandbox attribute is replaced.
ApplyResourceReadyHtmlFirst(frame, params) ==
    LET loaded == IF IsString(params.html)
                  THEN [frame EXCEPT !.srcdoc = params.html, !.docFlags = frame.sandbox]
                  ELSE frame
    IN  IF IsString(params.sandbox)
        THEN [loaded EXCEPT !.sandbox = params.sandbox]
        ELSE loaded

\* const { html, sandbox } = event.data.params, then the two assignments in
\* the order of the code: the sandbox attribute first, srcdoc second.  The
\* document set through srcdoc loads under the attribute then in force.
ApplyResourceReady(frame, params) ==
    LET attributed == IF IsString(params.sandbox)
                      THEN [frame EXCEPT !.sandbox = params.sandbox]
                      ELSE frame
    IN  IF IsString(params.html)
        THEN [attributed EXCEPT !.srcdoc = params.html, !.docFlags = attributed.sandbox]
        ELSE attributed

SetInner(frame) ==
    /\ innerSandbox' = frame.sandbox
    /\ innerSrcdoc' = frame.srcdoc
    /\ innerDocFlags' = frame.docFlags

\* ProxyOnMessage with the bug of a last branch that does not look at the
\* source.
ProxyOnMessageAnySource(event) ==
    IF event.source = "parent"
    THEN IF event.data.method = RESOURCE_READY_NOTIFICATION
         THEN /\ SetInner(ApplyResourceReady(Inner, event.data))
              /\ UNCHANGED <<proxyToParent, proxyToInner>>
         ELSE /\ proxyToInner' = Append(proxyToInner, event.data)
              /\ UNCHANGED <<innerSandbox, innerSrcdoc, innerDocFlags, proxyToParent>>
    ELSE /\ proxyToParent' = Append(proxyToParent, event.data)
         /\ UNCHANGED <<innerSandbox, innerSrcdoc, innerDocFlags, proxyToInner>>

\* ProxyOnMessage with the bug of relaying the newest message first.
ProxyOnMessageNewestFirst(event) ==
    IF event.source = "parent"
    THEN IF event.data.method = RESOURCE_READY_NOTIFICATION
         THEN /\ SetInner(ApplyResourceReady(Inner, event.data))
              /\ UNCHANGED <<proxyToParent, proxyToInner>>
         ELSE /\ proxyToInner' = <<event.data>> \o proxyToInner
              /\ UNCHANGED <<innerSandbox, innerSrcdoc, innerDocFlags, proxyToParent>>
    ELSE IF event.source = "inner"
         THEN /\ proxyToParent' = <<event.data>> \o proxyToParent
              /\ UNCHANGED <<innerSandbox, innerSrcdoc, innerDocFlags, proxyToInner>>
         ELSE UNCHANGED <<innerSandbox, innerSrcdoc, innerDocFlags, proxyToParent,
                          proxyToInner>>

\* ProxyOnMessage with the bug of handing the Host's newest message to the
\* nested frame ahead of the ones it relayed before.
ProxyOnMessageDownNewestFirst(event) ==
    IF event.source = "parent"
    THEN IF event.data.method = RESOURCE_READY_NOTIFICATION
         THEN /\ SetInner(ApplyResourceReady(Inner, event.data))
              /\ UNCHANGED <<proxyToParent, proxyToInner>>
         ELSE /\ proxyToInner' =
                    SubSeq(proxyToInner, 1, guestRelayed) \o <<event.data>>
                        \o SubSeq(proxyToInner, guestRelayed + 1, Len(proxyToInner))
              /\ UNCHANGED <<innerSandbox, innerSrcdoc, innerDocFlags, proxyToParent>>
    ELSE IF event.source = "inner"
         THEN /\ proxyToParent' = Append(proxyToParent, event.data)
              /\ UNCHANGED <<innerSandbox, innerSrcdoc, innerDocFlags, proxyToInner>>
         ELSE UNCHANGED <<innerSandbox, innerSrcdoc, innerDocFlags, proxyToParent,
                          proxyToInner>>

\* The proxy's message listener.
ProxyOnMessage(event) ==
    IF event.source = "parent"
    THEN IF event.data.method = RESOURCE_READY_NOTIFICATION
         THEN /\ SetInner(ApplyResourceReady(Inner, event.data))
              /\ UNCHANGED <<proxyToParent, proxyToInner>>
         ELSE /\ proxyToInner' = Append(proxyToInner, event.data)
              /\ UNCHANGED <<innerSandbox, innerSrcdoc, innerDocFlags, proxyToParent>>
    ELSE IF event.source = "inner"
         THEN /\ proxyToParent' = Append(proxyToParent, event.data)
              /\ UNCHANGED <<innerSandbox, innerSrcdoc, innerDocFlags, proxyToInner>>
         ELSE UNCHANGED <<innerSandbox, innerSrcdoc, innerDocFlags, proxyToParent,
                          proxyToInner>>

\* One message event at the proxy's window, once the script has run: the
\* listener runs when it is installed.
ProxyDispatch ==
    /\ proxyPc \in {"running", "failed"}
    /\ proxyEvents # <<>>
    /\ proxyEvents' = Tail(proxyEvents)
    /\ IF proxyListening
       THEN ProxyOnMessage(Head(proxyEvents))
       ELSE UNCHANGED <<innerSandbox, innerSrcdoc, innerDocFlags, proxyToParent,
                        proxyToInner>>
    /\ UNCHANGED <<proxyPc, innerExists, proxyListening, proxyPosted>>
    /\ UNCHANGED proxyEnv
    /\ UNCHANGED mainVars
    /\ UNCHANGED pmtVars

SandboxNext ==
    \/ ProxyCheckEmbedded
    \/ ProxyCheckReferrer
    \/ ProxyCheckAllowed
    \/ ProxySelfTest
    \/ ProxyCreateInner
    \/ ProxyAddListener
    \/ ProxyPostReady
    \/ \E source \in EventSources, data \in ProxyPayloads : PostToProxy(source, data)
    \/ ProxyDispatch

SandboxSpec == SandboxInit /\ [][SandboxNext]_vars

\* ------------------------------------------- Sandbox Proxy: forged control

\* What a window can post to the proxy's window: script in any frame
\* chooses event.data freely, a message shaped like the proxy's own ready
\* notification included.
AnyPayloads == ProxyPayloads \cup {ProxyReadyMessage}

\* The Sandbox Proxy of sandbox.ts, however it is loaded.
ForgeryInit == SandboxInit /\ proxyBuild = "sandbox.ts"

ForgeryNext ==
    \/ ProxyCheckEmbedded
    \/ ProxyCheckReferrer
    \/ ProxyCheckAllowed
    \/ ProxySelfTest
    \/ ProxyCreateInner
    \/ ProxyAddListener
    \/ ProxyPostReady
    \/ \E source \in EventSources, data \in AnyPayloads : PostToProxy(source, data)
    \/ ProxyDispatch

ForgerySpec == ForgeryInit /\ [][ForgeryNext]_vars

\* ------------------------------------------- PostMessageTransport (Host)

\* The windows a message event on the Host's window can come from: the
\* Sandbox Proxy's iframe, the nested frame inside it, any other window.
ProxyWindow == "proxy"
DirectSources == {"inner", "other"}

\* event.data: a JSON-RPC envelope around a message.
Wire(msg) == [jsonrpc |-> "2.0", message |-> msg]

\* event.data that is no JSON-RPC 2.0 envelope.
BadWire(msg) == [jsonrpc |-> "1.0", message |-> msg]

\* What windows post: the handshake's two messages, a tool call, and a
\* payload that does not parse.
WirePayloads ==
    {Wire(Request(1, "ui/initialize",
                  [appCapabilities |-> "{}", appInfo |-> "G/1",
                   protocolVersion |-> LATEST_PROTOCOL_VERSION])),
     Wire(Notification("ui/notifications/initialized")),
     Wire(Request(2, "tools/call", [name |-> "x"])),
     BadWire(Notification("ui/notifications/initialized"))}

\* What a window posts at the Host's window itself: a message that would
\* make the Guest live, and a payload that does not parse.
DirectPayloads ==
    {Wire(Notification("ui/notifications/initialized")),
     BadWire(Notification("ui/notifications/initialized"))}

\* SafeParse with the bug of accepting every payload.
SafeParseLenient(data) == [success |-> TRUE, data |-> data.message]

\* JSONRPCMessageSchema.safeParse(event.data)
SafeParse(data) ==
    [success |-> data.jsonrpc = "2.0"
                    /\ data.message.type \in {"request", "notification", "response", "error"},
     data |-> data.message]

\* PassesSourceFilter with the bug of a filter that lets every window of the
\* iframe's frame tree through.
PassesSourceFilterFrameTree(eventSource, source) ==
    ~(eventSource # Undefined /\ source \notin {eventSource, "inner"})

\* PassesSourceFilter with the bug of a filter that, given no expected
\* sender, lets through only the window the transport sends to.
PassesSourceFilterTargetOnly(eventSource, source) ==
    source = (IF eventSource = Undefined THEN ProxyWindow ELSE eventSource)

\* PassesSourceFilter with the bug of no filter.
PassesSourceFilterAlways(eventSource, source) == TRUE

\* The negation of: eventSource && event.source !== this.eventSource
PassesSourceFilter(eventSource, source) ==
    ~(eventSource # Undefined /\ source # eventSource)

\* The Host with its bridge not yet connected, beside a Sandbox Proxy that
\* has finished its setup and loaded the Guest's HTML.
TransportInit ==
    /\ MainInit
    /\ guestVersion = LATEST_PROTOCOL_VERSION
    /\ hostKind = "AppBridge"
    /\ bridgeCapabilities = "{tools:{}}"
    /\ serverTools = TRUE
    /\ PlainBackend
    /\ PlainApp
    /\ proxyBuild = "PLAN.md"
    /\ proxyIsTop = FALSE
    /\ proxyReferrer = RefLocalhostPort
    /\ proxyAlertThrows = TRUE
    /\ proxyPc = "running"
    /\ innerExists = TRUE
    /\ innerSandbox = DefaultSandbox
    /\ innerSrcdoc = "<html>"
    /\ innerDocFlags = DefaultSandbox
    /\ proxyListening = TRUE
    /\ proxyEvents = <<>>
    /\ proxyPosted = 0
    /\ proxyToParent = <<ProxyReadyMessage>>
    /\ proxyToInner = <<>>
    /\ pmtEventSource \in {Undefined, ProxyWindow}
    /\ pmtEvents = <<>>
    /\ pmtPosted = 0
    /\ pmtRelayed = 1
    /\ pmtMessages = 0
    /\ pmtDropped = <<>>
    /\ pmtErrors = 0
    /\ pmtCloses = 0

\* bridge.connect(transport), once: Protocol.connect calls transport.start().
PmtStart ==
    /\ pmtCloses = 0
    /\ BridgeConnect

\* What the Proxy posted to window.parent arrives as a message event on the
\* Host's window, its source the Proxy's window.
ProxyDelivers ==
    /\ pmtRelayed < Len(proxyToParent)
    /\ pmtEvents' =
            Append(pmtEvents,
                   [source |-> ProxyWindow, data |-> proxyToParent[pmtRelayed + 1]])
    /\ pmtRelayed' = pmtRelayed + 1
    /\ UNCHANGED <<pmtEventSource, pmtPosted, pmtMessages, pmtDropped, pmtErrors, pmtCloses>>
    /\ UNCHANGED mainVars
    /\ UNCHANGED proxyVars

\* The Guest in the nested frame posts to window.parent, the Proxy.
GuestPostsToProxy(data) ==
    /\ pmtPosted + proxyPosted < MaxWindowEvents
    /\ PostToProxy("inner", data)

\* A window posts to the Host's window itself.
PostToHost(source, data) ==
    /\ pmtPosted + proxyPosted < MaxWindowEvents
    /\ pmtEvents' = Append(pmtEvents, [source |-> source, data |-> data])
    /\ pmtPosted' = pmtPosted + 1
    /\ UNCHANGED <<pmtEventSource, pmtRelayed, pmtMessages, pmtDropped, pmtErrors, pmtCloses>>
    /\ UNCHANGED mainVars
    /\ UNCHANGED proxyVars

\* One message event on the Host's window: messageListener, when it is
\* registered.
PmtDispatch ==
    /\ pmtEvents # <<>>
    /\ pmtEvents' = Tail(pmtEvents)
    /\ LET event == Head(pmtEvents)
           parsed == SafeParse(event.data)
       IN  IF ~bridgeListening
           THEN UNCHANGED <<appCapabilities, bridgeInitialized, bridgeForwarding,
                            bridgeAborted, serverCalls, bridgeTeardown, serverNotified,
                            toGuest, pmtMessages, pmtDropped, pmtErrors>>
           ELSE IF ~PassesSourceFilter(pmtEventSource, event.source)
           THEN /\ pmtDropped' = Append(pmtDropped, event.source)
                /\ UNCHANGED <<appCapabilities, bridgeInitialized, bridgeForwarding,
                               bridgeAborted, serverCalls, bridgeTeardown, serverNotified,
                               toGuest, pmtMessages, pmtErrors>>
           ELSE IF parsed.success
           THEN /\ pmtMessages' = pmtMessages + 1
                /\ BridgeOnMessage(parsed.data)
                /\ UNCHANGED <<pmtDropped, pmtErrors>>
           ELSE /\ pmtErrors' = pmtErrors + 1
                /\ UNCHANGED <<appCapabilities, bridgeInitialized, bridgeForwarding,
                               bridgeAborted, serverCalls, bridgeTeardown, serverNotified,
                               toGuest, pmtMessages, pmtDropped>>
    /\ UNCHANGED <<hostKind, bridgeCapabilities, bridgeListening, bridgeHandlers,
                   serverTools, serverFeatures, bridgeSent, hostMoreVars>>
    /\ UNCHANGED <<pmtEventSource, pmtPosted, pmtRelayed, pmtCloses>>
    /\ UNCHANGED guestVars
    /\ UNCHANGED toHost
    /\ UNCHANGED proxyVars

\* transport.close() on a transport that was started: the listener is
\* removed and onclose is invoked.
PmtClose ==
    /\ bridgeListening \/ pmtCloses > 0
    /\ pmtCloses < MaxCloseCalls
    /\ bridgeListening' = FALSE
    /\ pmtCloses' = pmtCloses + 1
    /\ UNCHANGED <<hostKind, bridgeCapabilities, appCapabilities, bridgeHandlers,
                   bridgeInitialized, bridgeForwarding, serverTools, serverFeatures>>
    /\ UNCHANGED bridgeExtVars
    /\ UNCHANGED <<pmtEventSource, pmtEvents, pmtPosted, pmtRelayed, pmtMessages, pmtDropped, pmtErrors>>
    /\ UNCHANGED guestVars
    /\ UNCHANGED <<toHost, toGuest>>
    /\ UNCHANGED proxyVars

\* The backend answers a call forwarded over a connection that is still open.
ForwardedCallCompletes(f, ok) ==
    /\ bridgeListening
    /\ BackendComplete(f, ok)

TransportNext ==
    \/ PmtStart
    \/ \E data \in WirePayloads : GuestPostsToProxy(data)
    \/ ProxyDispatch
    \/ ProxyDelivers
    \/ \E source \in DirectSources, data \in DirectPayloads : PostToHost(source, data)
    \/ PmtDispatch
    \/ PmtClose
    \/ \E f \in bridgeForwarding, ok \in BOOLEAN : ForwardedCallCompletes(f, ok)

TransportSpec == TransportInit /\ [][TransportNext]_vars

\* --------------------------------------------------- Bridge: forwarding

\* What a backend can declare besides tools: a listChanged flag sits inside
\* its category.
ServerFeatureSets ==
    {fs \in SUBSET {"tools.listChanged", "resources", "resources.listChanged",
                    "prompts", "prompts.listChanged"} :
        /\ "resources.listChanged" \in fs => "resources" \in fs
        /\ "prompts.listChanged" \in fs => "prompts" \in fs}

\* Methods of the Host capabilities openLinks and logging, which an
\* application registers handlers for on its bridge.
HostHandlerMethods == {"ui/open-link", "notifications/message"}

\* A Guest and an AppBridge in front of any backend.
BridgeInit ==
    /\ MainInit
    /\ PlainApp
    /\ ProxyAbsent
    /\ PmtAbsent
    /\ hostKind = "AppBridge"
    /\ guestVersion = LATEST_PROTOCOL_VERSION
    /\ bridgeCapabilities = "{tools:{}}"
    /\ serverFeatures \in ServerFeatureSets
    /\ "tools.listChanged" \in serverFeatures => serverTools
    /\ serverAvailable \/ (serverFeatures = {} /\ ~serverTools)

\* AppBridge.assertRequestHandlerCapability and assertNotificationCapability:
\* whether they let the registration of `method` through.  Their bodies are
\* empty.
AssertHandlerCapability(capabilities, method) == TRUE

\* Protocol.setRequestHandler / setNotificationHandler on the bridge: the
\* capability assertion, then the handler is stored.
BridgeSetHandler(method) ==
    /\ method \notin bridgeHandlers
    /\ bridgeHandlers' =
            IF AssertHandlerCapability(bridgeCapabilities, method)
            THEN bridgeHandlers \cup {method} ELSE bridgeHandlers
    /\ UNCHANGED <<hostKind, bridgeCapabilities, appCapabilities, bridgeListening,
                   bridgeInitialized, bridgeForwarding, serverTools, serverFeatures>>
    /\ UNCHANGED bridgeExtVars
    /\ UNCHANGED guestVars
    /\ UNCHANGED proxyVars
    /\ UNCHANGED pmtVars
    /\ UNCHANGED <<toHost, toGuest>>

\* Protocol.request on the App, for a method the Bridge can forward.
AppRequest(method, limit) ==
    /\ appTransport = "attached"
    /\ Len(appRequests) < limit
    /\ ProtocolRequest(method, [name |-> Undefined])
    /\ UNCHANGED <<guestVersion, connectPc, connectRejects, hostCapabilities,
                   hostInfo, appTransport, appLog, appIgnored, guestListening,
                   guestCloses, toGuest>>
    /\ UNCHANGED appExtVars
    /\ UNCHANGED resizeVars
    /\ UNCHANGED hostVars
    /\ UNCHANGED proxyVars
    /\ UNCHANGED pmtVars

BridgeNext ==
    \/ AppConnect
    \/ \E name \in ToolNames : AppCallServerTool(name, MaxBridgeRequests)
    \/ \E method \in ForwardableRequests \ {"tools/call"} :
            AppRequest(method, MaxBridgeRequests)
    \/ \E id \in DOMAIN appPending : LimitedAbort(id)
    \/ GuestDispatch
    \/ BridgeConnect
    \/ HostDispatch
    \/ \E f \in bridgeForwarding, ok \in BOOLEAN : BackendComplete(f, ok)

BridgeSpec == BridgeInit /\ [][BridgeNext]_vars

\* -------------------------------------------- Bridge: list_changed

\* list_changed notifications each side emits in a behaviour of
\* ListChangedSpec.
MaxListChanges == 2

\* list_changed notifications of the Guest the Bridge has yet to look at or
\* has passed on.
ListChangesFromGuest ==
    Cardinality({i \in DOMAIN toHost : toHost[i].method \in ForwardableNotifications})
        + Len(serverNotified)

\* Protocol.notification on the App for a list_changed notification.
AppNotify(method) ==
    /\ appTransport = "attached"
    /\ ListChangesFromGuest < MaxListChanges
    /\ toHost' = Append(toHost, Notification(method))
    /\ UNCHANGED guestVars
    /\ UNCHANGED hostVars
    /\ UNCHANGED proxyVars
    /\ UNCHANGED pmtVars
    /\ UNCHANGED toGuest

\* The backend emits a list_changed notification to the Host's client.
\* AppBridge sets no notification handler on the client, so nothing of the
\* Bridge runs.
BackendEmits ==
    /\ serverAvailable
    /\ serverEmitted < MaxListChanges
    /\ serverEmitted' = serverEmitted + 1
    /\ UNCHANGED <<hostKind, bridgeCapabilities, appCapabilities, bridgeListening,
                   bridgeHandlers, bridgeInitialized, bridgeForwarding, serverTools,
                   serverFeatures, bridgeAborted, serverCalls, bridgeSent,
                   bridgeTeardown, serverNotified, bridgePings, bridgeConnectThrew,
                   serverAvailable, serverResources, resourceReads>>
    /\ UNCHANGED guestVars
    /\ UNCHANGED proxyVars
    /\ UNCHANGED pmtVars
    /\ UNCHANGED <<toHost, toGuest>>

ListChangedInit == BridgeInit

ListChangedNext ==
    \/ AppConnect
    \/ ConnectResolve
    \/ \E method \in ForwardableNotifications : AppNotify(method)
    \/ BackendEmits
    \/ GuestDispatch
    \/ BridgeConnect
    \/ HostDispatch

ListChangedSpec == ListChangedInit /\ [][ListChangedNext]_vars

\* ------------------------------------------------- handler registration

\* McpUiAppCapabilities an App is constructed with.
AppCapabilitySets == {"{}", "{tools:{}}"}

ToolMethods == {"tools/call", "tools/list"}

\* The requests an application registers a handler for on its App.
AppRequestMethods == ToolMethods \cup {"ui/resource-teardown"}

\* The App's variables no registration touches.
appCoreVars ==
    <<guestVersion, connectPc, connectRejects, hostCapabilities, hostInfo,
      appTransport, appNextId, appPending, appRequests, appLog, appIgnored,
      guestListening, guestCloses>>

\* AppAssertRequestHandlerCapability with the bug of an assertion that lets
\* every method through.
AppAssertRequestHandlerCapabilityLax(capabilities, method) == TRUE

\* App.assertRequestHandlerCapability: whether it returns (TRUE) or throws.
AppAssertRequestHandlerCapability(capabilities, method) ==
    CASE method \in {"tools/call", "tools/list"} -> capabilities = "{tools:{}}"
      [] method = "ping" -> TRUE
      [] OTHER -> FALSE

\* Protocol.setRequestHandler on the App, also through the oncalltool and
\* onlisttools setters: the capability assertion, then the handler is stored.
AppSetRequestHandler(method) ==
    /\ method \notin appHandlers \cup appThrown
    /\ IF AppAssertRequestHandlerCapability(guestCapabilities, method)
       THEN /\ appHandlers' = appHandlers \cup {method}
            /\ UNCHANGED appThrown
       ELSE /\ appThrown' = appThrown \cup {method}
            /\ UNCHANGED appHandlers
    /\ UNCHANGED <<guestCapabilities, appEarlyHandlers, appSeen, guestRelayed,
                   appCallback>>
    /\ UNCHANGED appCoreVars
    /\ UNCHANGED resizeVars
    /\ UNCHANGED hostVars
    /\ UNCHANGED proxyVars
    /\ UNCHANGED pmtVars
    /\ UNCHANGED <<toHost, toGuest>>

\* Protocol.setNotificationHandler on the App, through the ontoolinput and
\* ontoolresult setters.
AppSetNotificationHandler(method) ==
    /\ method \notin appHandlers
    /\ appHandlers' = appHandlers \cup {method}
    /\ appCallback' = [appCallback EXCEPT ![method] = 1]
    /\ UNCHANGED <<guestCapabilities, appEarlyHandlers, appThrown, appSeen, guestRelayed>>
    /\ UNCHANGED appCoreVars
    /\ UNCHANGED resizeVars
    /\ UNCHANGED hostVars
    /\ UNCHANGED proxyVars
    /\ UNCHANGED pmtVars
    /\ UNCHANGED <<toHost, toGuest>>

\* A notification setter assigned again: setNotificationHandler stores the
\* new callback under the method, in place of the one stored before.
AppReassignNotificationHandler(method) ==
    /\ method \in appHandlers
    /\ appCallback[method] < MaxAssignments
    /\ appCallback' = [appCallback EXCEPT ![method] = @ + 1]
    /\ UNCHANGED <<guestCapabilities, appHandlers, appEarlyHandlers, appThrown, appSeen,
                   guestRelayed>>
    /\ UNCHANGED appCoreVars
    /\ UNCHANGED resizeVars
    /\ UNCHANGED hostVars
    /\ UNCHANGED proxyVars
    /\ UNCHANGED pmtVars
    /\ UNCHANGED <<toHost, toGuest>>

\* Any App in front of any AppBridge.
RegistrationInit ==
    /\ MainInit
    /\ PlainBackend
    /\ autoResize = "false"
    /\ appBuild = "scheduled"
    /\ guestCapabilities \in AppCapabilitySets
    /\ hostKind = "AppBridge"
    /\ guestVersion = LATEST_PROTOCOL_VERSION
    /\ ProxyAbsent
    /\ PmtAbsent

RegistrationNext ==
    \/ \E method \in AppRequestMethods : AppSetRequestHandler(method)
    \/ \E method \in AppNotificationMethods : AppSetNotificationHandler(method)
    \/ \E method \in HostHandlerMethods : BridgeSetHandler(method)
    \/ AppConnect
    \/ BridgeConnect
    \/ HostDispatch
    \/ GuestDispatch

RegistrationSpec == RegistrationInit /\ [][RegistrationNext]_vars

\* --------------------------------------------------------------- ping

\* Protocol.request on the bridge for ping: the bridge's request ids count
\* from 0.
BridgePing ==
    /\ bridgeListening
    /\ bridgePings < MaxPings
    /\ bridgePings' = bridgePings + 1
    /\ toGuest' = Append(toGuest, Request(bridgePings, "ping", NoParams))
    /\ UNCHANGED <<hostKind, bridgeCapabilities, appCapabilities, bridgeListening,
                   bridgeHandlers, bridgeInitialized, bridgeForwarding, serverTools,
                   serverFeatures, bridgeAborted, serverCalls, bridgeSent,
                   bridgeTeardown, serverNotified, bridgeConnectThrew,
                   serverAvailable, serverEmitted, serverResources, resourceReads>>
    /\ UNCHANGED guestVars
    /\ UNCHANGED proxyVars
    /\ UNCHANGED pmtVars
    /\ UNCHANGED toHost

\* Any App in front of any AppBridge, whatever either declares.
PingInit ==
    /\ MainInit
    /\ PlainBackend
    /\ guestCapabilities \in AppCapabilitySets
    /\ autoResize = "false"
    /\ appBuild = "scheduled"
    /\ hostKind = "AppBridge"
    /\ guestVersion = LATEST_PROTOCOL_VERSION
    /\ ProxyAbsent
    /\ PmtAbsent

PingNext ==
    \/ AppConnect
    \/ ConnectResolve
    \/ AppRequest("ping", MaxPings + 1)
    \/ GuestDispatch
    \/ AppClose
    \/ BridgeConnect
    \/ BridgePing
    \/ HostDispatch

PingSpec == PingInit /\ [][PingNext]_vars

\* ------------------------------------------------ the Guest's life cycle

\* A Guest of this library's version in front of any Host; the application
\* may close the App and connect it again.
LifecycleInit == Init /\ guestVersion = LATEST_PROTOCOL_VERSION

LifecycleNext ==
    \/ AppConnect
    \/ AppReconnect
    \/ ConnectResolve
    \/ GuestDispatch
    \/ \E id \in DOMAIN appPending : RequestTimeout(id)
    \/ AppClose
    \/ BridgeConnect
    \/ HostDispatch

LifecycleSpec == LifecycleInit /\ [][LifecycleNext]_vars

\* --------------------------------------------- Host to Guest: a session

\* Protocol.notification on the bridge: the n-th notification the Host
\* sends carries n in its params.
BridgeNotification(method) ==
    /\ bridgeListening
    /\ Len(bridgeSent) < MaxNotifications
    /\ toGuest' = Append(toGuest, NotificationWith(method, [nth |-> Len(bridgeSent) + 1]))
    /\ bridgeSent' =
            Append(bridgeSent, [method |-> method, live |-> bridgeInitialized > 0])
    /\ UNCHANGED <<hostKind, bridgeCapabilities, appCapabilities, bridgeListening,
                   bridgeHandlers, bridgeInitialized, bridgeForwarding, serverTools,
                   serverFeatures, bridgeAborted, serverCalls, bridgeTeardown,
                   serverNotified, hostMoreVars>>
    /\ UNCHANGED guestVars
    /\ UNCHANGED proxyVars
    /\ UNCHANGED pmtVars
    /\ UNCHANGED toHost

\* AppBridge.sendToolInput
BridgeSendToolInput == BridgeNotification(TOOL_INPUT_NOTIFICATION)

\* AppBridge.sendToolResult
BridgeSendToolResult == BridgeNotification(TOOL_RESULT_NOTIFICATION)

\* AppBridge.sendResourceTeardown: a request to the Guest.
BridgeSendResourceTeardown ==
    /\ bridgeListening
    /\ bridgeTeardown = "none"
    /\ bridgeTeardown' = "pending"
    /\ toGuest' = Append(toGuest, Request(TeardownId, "ui/resource-teardown", NoParams))
    /\ UNCHANGED <<hostKind, bridgeCapabilities, appCapabilities, bridgeListening,
                   bridgeHandlers, bridgeInitialized, bridgeForwarding, serverTools,
                   serverFeatures, bridgeAborted, serverCalls, bridgeSent,
                   serverNotified, hostMoreVars>>
    /\ UNCHANGED guestVars
    /\ UNCHANGED proxyVars
    /\ UNCHANGED pmtVars
    /\ UNCHANGED toHost

\* The teardown request's timeout expires before a response arrived.
TeardownTimeout ==
    /\ bridgeTeardown = "pending"
    /\ bridgeTeardown' = "timeout"
    /\ UNCHANGED <<hostKind, bridgeCapabilities, appCapabilities, bridgeListening,
                   bridgeHandlers, bridgeInitialized, bridgeForwarding, serverTools,
                   serverFeatures, bridgeAborted, serverCalls, bridgeSent,
                   serverNotified, hostMoreVars>>
    /\ UNCHANGED guestVars
    /\ UNCHANGED proxyVars
    /\ UNCHANGED pmtVars
    /\ UNCHANGED <<toHost, toGuest>>

\* The Sandbox Proxy has run its script and loaded the Guest's HTML.
ProxyRunning ==
    /\ proxyBuild = "sandbox.ts"
    /\ proxyIsTop = FALSE
    /\ proxyReferrer = RefLocalhostPort
    /\ proxyAlertThrows = TRUE
    /\ proxyPc = "running"
    /\ innerExists = TRUE
    /\ innerSandbox = DefaultSandbox
    /\ innerSrcdoc = "<html>"
    /\ innerDocFlags = DefaultSandbox
    /\ proxyListening = TRUE
    /\ proxyEvents = <<>>
    /\ proxyPosted = 0
    /\ proxyToParent = <<ProxyReadyMessage>>
    /\ proxyToInner = <<>>

\* The Host's transport was constructed for the Proxy's window, and the
\* Proxy's ready message has arrived.
PmtBehindProxy ==
    /\ pmtEventSource = ProxyWindow
    /\ pmtEvents = <<>>
    /\ pmtPosted = 0
    /\ pmtRelayed = 1
    /\ pmtMessages = 0
    /\ pmtDropped = <<>>
    /\ pmtErrors = 0
    /\ pmtCloses = 0

\* What the Host posted to its iframe arrives as a message event at the
\* Proxy's window, its source the parent.
HostPostReachesProxy ==
    /\ proxyPc # "absent"
    /\ toGuest # <<>>
    /\ toGuest' = Tail(toGuest)
    /\ proxyEvents' = Append(proxyEvents, [source |-> "parent", data |-> Head(toGuest)])
    /\ proxyPosted' = proxyPosted + 1
    /\ UNCHANGED <<proxyPc, innerExists, innerSandbox, innerSrcdoc, innerDocFlags,
                   proxyListening, proxyToParent, proxyToInner>>
    /\ UNCHANGED proxyEnv
    /\ UNCHANGED <<guestVars, hostVars, toHost>>
    /\ UNCHANGED pmtVars

\* What the Guest's transport posted to window.parent arrives as a message
\* event at the Proxy's window, its source the nested frame.
GuestPostReachesProxy ==
    /\ proxyPc # "absent"
    /\ toHost # <<>>
    /\ toHost' = Tail(toHost)
    /\ proxyEvents' = Append(proxyEvents, [source |-> "inner", data |-> Wire(Head(toHost))])
    /\ proxyPosted' = proxyPosted + 1
    /\ UNCHANGED <<proxyPc, innerExists, innerSandbox, innerSrcdoc, innerDocFlags,
                   proxyListening, proxyToParent, proxyToInner>>
    /\ UNCHANGED proxyEnv
    /\ UNCHANGED <<guestVars, hostVars, toGuest>>
    /\ UNCHANGED pmtVars

\* One message event on the Guest's window in the nested frame: what the
\* Proxy posted to inner.contentWindow, in the order it posted it.
InnerDispatch ==
    /\ guestRelayed < Len(proxyToInner)
    /\ guestRelayed' = guestRelayed + 1
    /\ IF guestListening
       THEN GuestOnMessage(proxyToInner[guestRelayed + 1])
       ELSE UNCHANGED <<connectPc, connectRejects, hostCapabilities, hostInfo,
                        appTransport, appPending, appRequests, appLog, appIgnored,
                        guestListening, guestCloses, toHost, appSeen>>
    /\ UNCHANGED <<guestVersion, appNextId>>
    /\ UNCHANGED <<guestCapabilities, appHandlers, appEarlyHandlers, appThrown, appCallback>>
    /\ UNCHANGED resizeVars
    /\ UNCHANGED hostVars
    /\ UNCHANGED proxyVars
    /\ UNCHANGED pmtVars
    /\ UNCHANGED toGuest

\* An App and an AppBridge, the Guest either in the Host's iframe itself or
\* in the nested frame of a Sandbox Proxy.
SessionInit ==
    /\ MainInit
    /\ PlainBackend
    /\ PlainApp
    /\ hostKind = "AppBridge"
    /\ guestVersion = LATEST_PROTOCOL_VERSION
    /\ bridgeCapabilities = "{}"
    /\ serverTools = FALSE
    /\ \/ ProxyAbsent /\ PmtAbsent
       \/ ProxyRunning /\ PmtBehindProxy

SessionNext ==
    \/ \E method \in AppNotificationMethods : AppSetNotificationHandler(method)
    \/ AppConnect
    \/ ConnectResolve
    \/ BridgeConnect
    \/ HostDispatch
    \/ GuestDispatch
    \/ GuestPostReachesProxy
    \/ HostPostReachesProxy
    \/ ProxyDispatch
    \/ ProxyDelivers
    \/ PmtDispatch
    \/ InnerDispatch
    \/ BridgeSendToolInput
    \/ BridgeSendToolResult

SessionSpec == SessionInit /\ [][SessionNext]_vars

\* The same two endpoints at the end of a session: the Host tears the
\* Guest's resource down.
TeardownNext ==
    \/ AppSetRequestHandler("ui/resource-teardown")
    \/ AppConnect
    \/ ConnectResolve
    \/ BridgeConnect
    \/ HostDispatch
    \/ GuestDispatch
    \/ GuestPostReachesProxy
    \/ HostPostReachesProxy
    \/ ProxyDispatch
    \/ ProxyDelivers
    \/ PmtDispatch
    \/ InnerDispatch
    \/ BridgeSendResourceTeardown
    \/ TeardownTimeout

TeardownSpec == SessionInit /\ [][TeardownNext]_vars

\* A Guest in the Host's iframe whose application assigns its notification
\* setters more than once.
HandlerInit == SessionInit /\ ProxyAbsent

HandlerNext ==
    \/ \E method \in AppNotificationMethods : AppSetNotificationHandler(method)
    \/ \E method \in AppNotificationMethods : AppReassignNotificationHandler(method)
    \/ AppConnect
    \/ ConnectResolve
    \/ BridgeConnect
    \/ HostDispatch
    \/ GuestDispatch
    \/ BridgeSendToolInput
    \/ BridgeSendToolResult

HandlerSpec == HandlerInit /\ [][HandlerNext]_vars

\* ----------------------------------------------- server: app resources

\* The content type of a Guest HTML resource.
RESOURCE_MIME_TYPE == "text/html;profile=mcp-app"

\* Resources a server registers in a behaviour of ServerSpec.
MaxResources == 2

ResourceNames == {"My Resource", "Other Resource"}
ResourceUris == {"ui://test/widget.html"}

\* Config objects given to registerAppResource: Undefined is an omitted key.
ResourceConfigs ==
    [mimeType : {Undefined, "text/html", RESOURCE_MIME_TYPE},
     description : {Undefined, "A test resource"}]

\* Read callbacks, each named by the text of the contents it resolves to.
ResourceCallbacks == {"<html/>", "<html>content</html>"}

\* What a read callback resolves to.
CallbackResult(callback, uri, mimeType) ==
    [contents |-> <<[uri |-> uri, mimeType |-> mimeType, text |-> callback]>>]

\* registerAppResource with a default that replaces the config's mimeType.
RegisterAppResourceDefaultLast(name, uri, config, callback) ==
    [name |-> name,
     uri |-> uri,
     config |-> [config EXCEPT !.mimeType = RESOURCE_MIME_TYPE],
     handler |-> callback]

\* registerAppResource: the arguments of the one server.registerResource
\* call it makes. The config is the given one over a default mimeType.
RegisterAppResource(name, uri, config, callback) ==
    [name |-> name,
     uri |-> uri,
     config |-> [config EXCEPT !.mimeType =
                    IF config.mimeType = Undefined
                    THEN RESOURCE_MIME_TYPE ELSE config.mimeType],
     handler |-> callback]

\* A server author calls registerAppResource; the arguments given are kept
\* next to what server.registerResource received.
ServerRegisterAppResource(name, uri, config, callback) ==
    /\ Len(serverResources) < MaxResources
    /\ serverResources' =
          Append(serverResources,
                 [given |-> [name |-> name, uri |-> uri, config |-> config,
                             callback |-> callback],
                  registered |-> RegisterAppResource(name, uri, config, callback)])
    /\ UNCHANGED <<hostKind, bridgeCapabilities, appCapabilities, bridgeListening,
                   bridgeHandlers, bridgeInitialized, bridgeForwarding, serverTools,
                   serverFeatures, bridgeAborted, serverCalls, bridgeSent,
                   bridgeTeardown, serverNotified, bridgePings, bridgeConnectThrew,
                   serverAvailable, serverEmitted, resourceReads>>
    /\ UNCHANGED guestVars
    /\ UNCHANGED proxyVars
    /\ UNCHANGED pmtVars
    /\ UNCHANGED <<toHost, toGuest>>

\* The server reads a registered resource: it invokes the handler that
\* server.registerResource received.
ServerReadResource(i) ==
    /\ i \in DOMAIN serverResources
    /\ Len(resourceReads) < MaxResources
    /\ LET registered == serverResources[i].registered IN
       resourceReads' =
          Append(resourceReads,
                 [resource |-> i,
                  result |-> CallbackResult(registered.handler, registered.uri,
                                            registered.config.mimeType)])
    /\ UNCHANGED <<hostKind, bridgeCapabilities, appCapabilities, bridgeListening,
                   bridgeHandlers, bridgeInitialized, bridgeForwarding, serverTools,
                   serverFeatures, bridgeAborted, serverCalls, bridgeSent,
                   bridgeTeardown, serverNotified, bridgePings, bridgeConnectThrew,
                   serverAvailable, serverEmitted, serverResources>>
    /\ UNCHANGED guestVars
    /\ UNCHANGED proxyVars
    /\ UNCHANGED pmtVars
    /\ UNCHANGED <<toHost, toGuest>>

\* A server with no resource registered; the Host and the Guest stay as built.
ServerInit ==
    /\ Init
    /\ hostKind = "AppBridge"
    /\ guestVersion = LATEST_PROTOCOL_VERSION
    /\ bridgeCapabilities = "{}"
    /\ serverTools = FALSE

ServerNext ==
    \/ \E name \in ResourceNames, uri \in ResourceUris,
          config \in ResourceConfigs, callback \in ResourceCallbacks :
            ServerRegisterAppResource(name, uri, config, callback)
    \/ \E i \in 1..MaxResources : ServerReadResource(i)

ServerSpec == ServerInit /\ [][ServerNext]_vars

\* ------------------------------------------------ size-change reporting

\* getBoundingClientRect() of the html element: widths and heights in
\* tenths of a pixel.
Rects ==
    {[width |-> 3000, height |-> 2000],
     [width |-> 3004, height |-> 2000],
     [width |-> 3000, height |-> 1991]}

\* Math.ceil of a length given in tenths.
Ceil(tenths) == (tenths + 9) \div 10

\* scrollWidth and scrollHeight of a length given in tenths: the nearest
\* integer.
Round(tenths) == (tenths + 5) \div 10

\* What the animation-frame callback sends: the sides of the rect rounded
\* up, or in the build with rafId the scroll sizes (no borders here).
SizeChange(rect) ==
    NotificationWith("ui/notifications/size-change",
                     IF appBuild = "rafId"
                     THEN [width |-> Round(rect.width), height |-> Round(rect.height)]
                     ELSE [width |-> Ceil(rect.width), height |-> Ceil(rect.height)])

\* The ResizeObserver reports a size of html or body: sendBodySizeChange.
Observe(rect) ==
    /\ resizeObserving
    /\ observations < MaxObservations
    /\ observations' = observations + 1
    /\ bodyRect' = rect
    /\ LET s == SendBodySizeChange([scheduled |-> resizeScheduled, queue |-> rafQueue]) IN
       /\ resizeScheduled' = s.scheduled
       /\ rafQueue' = s.queue
    /\ UNCHANGED <<autoResize, appBuild, resizeObserving, frameSizeChanges>>
    /\ UNCHANGED appCoreVars
    /\ UNCHANGED appExtVars
    /\ UNCHANGED hostVars
    /\ UNCHANGED proxyVars
    /\ UNCHANGED pmtVars
    /\ UNCHANGED <<toHost, toGuest>>

\* n copies of msg.
Copies(n, msg) == [i \in 1..n |-> msg]

\* An animation frame: every callback requestAnimationFrame holds runs,
\* clears `scheduled` (or its rafId), measures, and sends a size-change notification (which
\* Protocol.notification refuses without a transport).
AnimationFrame ==
    /\ rafQueue > 0
    /\ rafQueue' = 0
    /\ resizeScheduled' = FALSE
    /\ frameSizeChanges' = IF appTransport = "attached" THEN rafQueue ELSE 0
    /\ toHost' =
            IF appTransport = "attached"
            THEN toHost \o Copies(rafQueue, SizeChange(bodyRect))
            ELSE toHost
    /\ UNCHANGED <<autoResize, appBuild, resizeObserving, observations, bodyRect>>
    /\ UNCHANGED appCoreVars
    /\ UNCHANGED appExtVars
    /\ UNCHANGED hostVars
    /\ UNCHANGED proxyVars
    /\ UNCHANGED pmtVars
    /\ UNCHANGED toGuest

\* An App with or without autoResize, and an AppBridge.
ResizeInit ==
    /\ MainInit
    /\ PlainBackend
    /\ guestCapabilities = "{}"
    /\ autoResize \in {AppOptions(argument).autoResize : argument \in OptionsArguments}
    /\ appBuild \in AppBuilds
    /\ hostKind = "AppBridge"
    /\ guestVersion = LATEST_PROTOCOL_VERSION
    /\ bridgeCapabilities = "{}"
    /\ serverTools = FALSE
    /\ ProxyAbsent
    /\ PmtAbsent

ResizeNext ==
    \/ AppConnect
    \/ ConnectResolve
    \/ BridgeConnect
    \/ HostDispatch
    \/ GuestDispatch
    \/ AppClose
    \/ \E rect \in Rects : Observe(rect)
    \/ AnimationFrame

ResizeSpec == ResizeInit /\ [][ResizeNext]_vars

\* ------------------------------------------------------------------ claims

\* Position of the first occurrence of event e in the log, 0 when absent.
Pos(log, e) ==
    IF \E i \in DOMAIN log : log[i] = e
    THEN CHOOSE i \in DOMAIN log : log[i] = e /\ \A j \in 1..(i - 1) : log[j] # e
    ELSE 0

InitializedInFlight ==
    \E i \in DOMAIN toHost : toHost[i].method = "ui/notifications/initialized"

\* The answers to ui/initialize that are on their way to the Guest.
InitializeAnswers ==
    {toGuest[i] : i \in {j \in DOMAIN toGuest :
        appRequests # <<>> /\ toGuest[j].id = appRequests[1].id}}

Supported == Range(SUPPORTED_PROTOCOL_VERSIONS)

\* C1: the Guest sends "initialized" only after it received a successful
\* ui/initialize result, connect() resolves only after "initialized" was sent,
\* and from then on getHostCapabilities()/getHostVersion() are the
\* hostCapabilities/hostInfo the Host's result carried; before the result
\* arrives both are undefined.
C1_HandshakeOrder ==
    /\ (InitializedInFlight \/ bridgeInitialized > 0 \/ Pos(appLog, "initializedSent") > 0)
            => /\ appRequests[1].state = "resolved"
               /\ appRequests[1].outcome.kind = "result"
               /\ 0 < Pos(appLog, "initializeResult")
               /\ Pos(appLog, "initializeResult") < Pos(appLog, "initializedSent")
    /\ connectPc = "resolved"
            => /\ 0 < Pos(appLog, "initializedSent")
               /\ Pos(appLog, "initializedSent") < Pos(appLog, "connectResolved")
               /\ hostCapabilities = bridgeCapabilities
               /\ hostInfo = HostInfo
               /\ hostCapabilities = appRequests[1].outcome.value.hostCapabilities
               /\ hostInfo = appRequests[1].outcome.value.hostInfo
    /\ Pos(appLog, "initializeResult") = 0
            => hostCapabilities = Undefined /\ hostInfo = Undefined

C1_Witness ==
    /\ connectPc = "resolved"
    /\ hostKind = "AppBridge"
    /\ hostCapabilities = "{tools:{}}"
    /\ bridgeInitialized = 1

\* C2: the AppBridge answers ui/initialize with the requested version when
\* it supports it and with its latest version otherwise, so always with a
\* version of its supported list, and never with an error response.
C2_NegotiatedVersion ==
    hostKind = "AppBridge" =>
        \A m \in InitializeAnswers :
            /\ m.type = "response"
            /\ m.body.protocolVersion \in Supported
            /\ guestVersion \in Supported => m.body.protocolVersion = guestVersion
            /\ guestVersion \notin Supported
                    => m.body.protocolVersion = LATEST_PROTOCOL_VERSION

C2_Witness ==
    /\ hostKind = "AppBridge"
    /\ guestVersion \notin Supported
    /\ \E m \in InitializeAnswers : m.body.protocolVersion = LATEST_PROTOCOL_VERSION

InitializeFailed ==
    /\ appRequests # <<>>
    /\ appRequests[1].state = "rejected"
    /\ appRequests[1].outcome.kind \in {"error", "timeout", "invalid"}

InitializeRequestsSent ==
    Cardinality({k \in DOMAIN appRequests : appRequests[k].method = "ui/initialize"})

\* C3: when the ui/initialize request fails (error response, timeout, or a
\* result failing validation) connect() rejects, the Guest's transport is
\* closed exactly once, no "initialized" is sent and ui/initialize is not
\* sent again.
C3_InitializeFailure ==
    InitializeFailed =>
        /\ connectPc = "rejected"
        /\ connectRejects = 1
        /\ guestCloses = 1
        /\ ~guestListening
        /\ ~InitializedInFlight
        /\ bridgeInitialized = 0
        /\ Pos(appLog, "initializedSent") = 0
        /\ InitializeRequestsSent = 1

C3_Witness ==
    /\ InitializeFailed
    /\ hostKind = "MissingCapabilities"
    /\ appRequests[1].outcome.kind = "invalid"
    /\ toHost = <<>>

\* C4: when the transport closes after connect() was called and before the
\* handshake completed, connect()'s promise is rejected, exactly once, the
\* endpoint is closed, and connect() is not left pending.
C4_CloseDuringHandshake ==
    /\ connectRejects <= 1
    /\ (guestCloses > 0 /\ Pos(appLog, "initializedSent") = 0)
            => /\ connectPc = "rejected"
               /\ connectRejects = 1
               /\ appTransport = "none"
               /\ ~guestListening
               /\ DOMAIN appPending = {}
               /\ \A k \in DOMAIN appRequests : appRequests[k].state # "pending"

C4_Witness ==
    /\ guestCloses = 1
    /\ connectPc = "rejected"
    /\ appRequests[1].outcome.kind = "closed"
    /\ Len(appRequests) = 2

\* The versions a Guest can use: the ones this library supports and the one
\* the Guest asked for.
GuestUsable == Supported \cup {guestVersion}

\* C5: when the Host's initialize result declares a version the Guest cannot
\* use, connect() rejects and the Guest closes its transport instead of
\* entering Initialized.
C5_UnusableVersionRejected ==
    (/\ appRequests # <<>>
     /\ appRequests[1].outcome.kind = "result"
     /\ appRequests[1].outcome.value.protocolVersion \notin GuestUsable)
        => /\ connectPc = "rejected"
           /\ guestCloses = 1

\* C6: a Guest requesting a version the Host does not support, with a Host
\* supporting exactly {V1}: the answer negotiates V1, the Guest accepts it
\* and connect() goes on to resolve; the requested version never makes the
\* handshake fail.
C6_FallbackCompletes ==
    (hostKind = "AppBridge" /\ guestVersion \notin Supported /\ appRequests # <<>>)
        => /\ appRequests[1].outcome.kind \in
                    {"none", "result", "timeout", "cancelled", "closed"}
           /\ appRequests[1].outcome.kind = "result"
                => /\ appRequests[1].outcome.value.protocolVersion
                        = LATEST_PROTOCOL_VERSION
                   /\ Supported = {LATEST_PROTOCOL_VERSION}
                   /\ connectPc \in {"initializedSent", "resolved"}
                   /\ connectRejects = 0
           /\ connectPc = "rejected"
                => appRequests[1].outcome.kind \in {"timeout", "cancelled", "closed"}

C6_Witness ==
    /\ hostKind = "AppBridge"
    /\ guestVersion \notin Supported
    /\ connectPc = "resolved"
    /\ appRequests[1].outcome.value.protocolVersion = LATEST_PROTOCOL_VERSION

IsPending(k) == appRequests[k].state = "pending"

\* C7: a request ended locally, by its abort signal or its timeout, before a
\* response arrived is rejected with a cancellation (resp. timeout) error,
\* its Pending Request Table entry is gone, and a response arriving later
\* for its id does not settle the promise again or change its outcome.
C7_LocalEnd ==
    \A k \in DOMAIN appRequests :
        appRequests[k].outcome.kind \in {"cancelled", "timeout"}
            => /\ appRequests[k].state = "rejected"
               /\ appRequests[k].settles = 1
               /\ appRequests[k].id \notin DOMAIN appPending
               /\ \A id \in DOMAIN appPending : appPending[id] # k

C7_Witness ==
    \E k \in DOMAIN appRequests :
        /\ appRequests[k].outcome.kind = "cancelled"
        /\ appRequests[k].id \in appIgnored
        /\ appTransport = "attached"

OutstandingIdsDistinct ==
    /\ \A k1, k2 \in DOMAIN appRequests :
            (k1 # k2 /\ IsPending(k1) /\ IsPending(k2))
                => appRequests[k1].id # appRequests[k2].id
    /\ \A k \in DOMAIN appRequests :
            IsPending(k) => /\ appRequests[k].id \in DOMAIN appPending
                            /\ appPending[appRequests[k].id] = k

\* A step in which the Guest's transport hands the engine a response whose
\* id has no pending entry.
UnmatchedResponseStep ==
    /\ toGuest # <<>>
    /\ toGuest' = Tail(toGuest)
    /\ guestListening
    /\ Head(toGuest).type \in {"response", "error"}
    /\ Head(toGuest).id \notin DOMAIN appPending

\* C8: the ids of one endpoint's outstanding requests are pairwise distinct
\* in every reachable state, and a response whose id matches no pending entry
\* is ignored: no entry changes, no promise is settled, nothing fails.
C8_UniqueIds ==
    /\ []OutstandingIdsDistinct
    /\ [][UnmatchedResponseStep
            => UNCHANGED <<appPending, appRequests, connectPc, connectRejects,
                           appTransport, guestListening, guestCloses, toHost,
                           hostCapabilities, hostInfo>>]_vars

C8_Witness ==
    /\ Cardinality(DOMAIN appPending) = 2
    /\ appIgnored # {}
    /\ \A k \in DOMAIN appRequests : appRequests[k].settles <= 1

\* Every settled request holds what the Host answered to that very request.
MatchedById ==
    \A k \in DOMAIN appRequests :
        /\ (appRequests[k].state = "resolved" /\ appRequests[k].method = "tools/call")
                => appRequests[k].outcome.value = ToolResult(appRequests[k].params.name)
        /\ (appRequests[k].state = "resolved" /\ appRequests[k].method = "ui/initialize")
                => appRequests[k].outcome.value
                        = OnInitialize(Request(appRequests[k].id, "ui/initialize",
                                               appRequests[k].params))
        /\ appRequests[k].outcome.kind = "error"
                => appRequests[k].method = "tools/call"
        /\ appRequests[k].settles <= 1

\* A step that hands the engine a response changes no request but the one
\* with the response's id.
ResponseSettlesItsOwn ==
    (/\ toGuest # <<>>
     /\ toGuest' = Tail(toGuest)
     /\ Head(toGuest).type \in {"response", "error"})
        => \A j \in DOMAIN appRequests :
                appRequests'[j] # appRequests[j]
                    => appRequests[j].id = Head(toGuest).id

FailsInStep(k) ==
    /\ IsPending(k)
    /\ appRequests'[k].outcome.kind \in {"error", "timeout", "cancelled"}

OthersUntouched(k) ==
    \A j \in DOMAIN appRequests \ {k} : appRequests'[j] = appRequests[j]

\* C9 as stated: an error, timeout or cancellation of any one request leaves
\* every other outstanding request as it was.
C9_AnyFailureIsolated ==
    [][\A k \in DOMAIN appRequests : FailsInStep(k) => OthersUntouched(k)]_vars

\* C9, amended: responses arriving in any order settle exactly the promise
\* whose request id they carry, and an error, timeout or cancellation of one
\* request leaves every other outstanding request as it was, unless that
\* request is the ui/initialize request connect() is awaiting (its failure
\* makes connect() close the transport, which rejects all that is pending).
C9_FailureIsolated ==
    /\ []MatchedById
    /\ [][ResponseSettlesItsOwn]_vars
    /\ [][\A k \in DOMAIN appRequests :
            (FailsInStep(k) /\ ~(k = 1 /\ connectPc = "awaitInit"))
                => OthersUntouched(k)]_vars

C9_Witness ==
    /\ Len(appRequests) = 3
    /\ appRequests[1].state = "resolved"
    /\ appRequests[2].outcome.kind = "timeout"
    /\ appRequests[3].state = "resolved"
    /\ appRequests[3].params.name = "y"
    /\ toGuest # <<>>
    /\ Head(toGuest).id = appRequests[2].id

\* The referrers of Referrers the allow-list admits, read off the pattern.
AdmittedReferrers == {RefLocalhostPort, RefLocalhostBare, RefLoopbackPath}

NothingSetUp ==
    /\ ~innerExists
    /\ innerSandbox = ""
    /\ innerSrcdoc = ""
    /\ innerDocFlags = ""
    /\ ~proxyListening
    /\ proxyToParent = <<>>
    /\ proxyToInner = <<>>

\* C10: a Sandbox Proxy loaded as a top-level window, with an empty referrer
\* or with a referrer the allow-list does not admit throws during setup
\* before anything else happens: it never creates the nested iframe, installs
\* no message listener and posts no proxy-ready message.
C10_RefusesToRun ==
    (proxyPc # "absent" /\ (proxyIsTop \/ proxyReferrer \notin AdmittedReferrers))
        => /\ proxyPc \in {"checkEmbedded", "checkReferrer", "checkAllowed", "failed"}
           /\ NothingSetUp

C10_Witness ==
    /\ proxyPc = "failed"
    /\ ~proxyIsTop
    /\ proxyReferrer = RefLocalhostPrefix
    /\ proxyPosted = MaxProxyEvents
    /\ proxyEvents = <<>>

SetupStages == {"checkEmbedded", "checkReferrer", "checkAllowed", "selfTest"}

\* C11: when the self-test call on the top-level window completes without
\* throwing, Proxy initialization aborts: no nested iframe, no message
\* listener, no proxy-ready message; setup goes on only when the call threw.
C11_SelfTestAborts ==
    (proxyPc # "absent" /\ ~proxyAlertThrows)
        => /\ proxyPc \in SetupStages \cup {"failed"}
           /\ NothingSetUp

\* The listener runs for the message event at the head of the queue.
Heard ==
    /\ proxyEvents # <<>>
    /\ proxyEvents' = Tail(proxyEvents)
    /\ proxyListening

HeardFromHost == Heard /\ Head(proxyEvents).source = "parent"

HeardControl ==
    HeardFromHost /\ Head(proxyEvents).data.method = RESOURCE_READY_NOTIFICATION

HeardFromInner == Heard /\ Head(proxyEvents).source = "inner"

HeardFromOther == Heard /\ Head(proxyEvents).source \notin {"parent", "inner"}

PostsOwnReady ==
    /\ proxyPc = "postReady"
    /\ proxyToParent' = Append(proxyToParent, ProxyReadyMessage)

RelayedOnce ==
    /\ (HeardFromHost /\ ~HeardControl)
            => /\ proxyToInner' = Append(proxyToInner, Head(proxyEvents).data)
               /\ proxyToParent' = proxyToParent
    /\ HeardFromInner
            => /\ proxyToParent' = Append(proxyToParent, Head(proxyEvents).data)
               /\ proxyToInner' = proxyToInner
    /\ ~(HeardFromHost /\ ~HeardControl) => proxyToInner' = proxyToInner
    /\ ~HeardFromInner => (proxyToParent' = proxyToParent \/ PostsOwnReady)

ResourceReadyApplied ==
    HeardControl =>
        LET data == Head(proxyEvents).data IN
        /\ proxyToInner' = proxyToInner
        /\ proxyToParent' = proxyToParent
        /\ innerSandbox' = IF data.sandbox \in {Undefined, NotAString}
                           THEN innerSandbox ELSE data.sandbox
        /\ innerSrcdoc' = data.html
        /\ innerDocFlags' = innerSandbox'

\* C13: a resource-ready message from the Host is never relayed; a sandbox
\* attribute given as a string replaces the nested frame's before the HTML
\* becomes its document, so the document loads under the new attribute; with
\* none given the attribute stays as it was.
C13_ResourceReady == [][ResourceReadyApplied]_vars

C13_Witness ==
    /\ innerSrcdoc = "<html>"
    /\ innerSandbox = "allow-scripts"
    /\ innerDocFlags = "allow-scripts"
    /\ proxyToInner = <<>>
    /\ proxyEvents = <<>>

OtherSourceIgnored ==
    HeardFromOther =>
        UNCHANGED <<proxyToInner, proxyToParent, innerSandbox, innerSrcdoc, innerDocFlags>>

\* C14: a message whose source is neither the parent window nor the nested
\* frame's window is relayed in neither direction and changes neither the
\* nested frame's document nor its sandbox attribute.
C14_OtherSources == [][OtherSourceIgnored]_vars

\* Both messages were dispatched to the listener and left no trace: they
\* came from other windows.
C14_Witness ==
    /\ proxyPc = "running"
    /\ proxyPosted = MaxProxyEvents
    /\ proxyEvents = <<>>
    /\ proxyToInner = <<>>
    /\ proxyToParent = <<ProxyReadyMessage>>
    /\ innerSrcdoc = ""

ReadyPosts ==
    Cardinality({i \in DOMAIN proxyToParent : proxyToParent[i] = ProxyReadyMessage})

PmtHeard ==
    /\ pmtEvents # <<>>
    /\ pmtEvents' = Tail(pmtEvents)
    /\ bridgeListening

\* The Host's endpoint takes the message in: onmessage or onerror runs.
PmtAccepts == pmtMessages' # pmtMessages \/ pmtErrors' # pmtErrors

\* What the endpoint accepts did not come straight from the nested frame, and
\* what comes from the Proxy's window is something the Proxy relayed.
OnlyMediated ==
    PmtAccepts =>
        /\ Head(pmtEvents).source # "inner"
        /\ Head(pmtEvents).source = ProxyWindow
                => Head(pmtEvents).data \in Range(proxyToParent)

\* C16 as stated: whatever the Host's transport, a message the nested frame
\* posts directly to the Host's window is not accepted; every Guest message
\* the endpoint accepts was relayed by the Proxy.
C16_NeverUnmediated == [][OnlyMediated]_vars

\* C16, amended: when the Host's transport was constructed with the Proxy's
\* window as its expected sender, a message the nested frame posts directly
\* to the Host's window is not accepted; every Guest message the endpoint
\* accepts was relayed by the Proxy.
C16_MediatedWhenFiltered ==
    [][pmtEventSource = ProxyWindow => OnlyMediated]_vars

C16_Witness ==
    /\ pmtEventSource = ProxyWindow
    /\ "inner" \in Range(pmtDropped)
    /\ pmtMessages > 0
    /\ bridgeInitialized > 0

ForeignSourceDropped ==
    (PmtHeard /\ pmtEventSource # Undefined
        /\ Head(pmtEvents).source # pmtEventSource)
        => /\ pmtDropped' = Append(pmtDropped, Head(pmtEvents).source)
           /\ UNCHANGED <<pmtMessages, pmtErrors, pmtCloses, toGuest>>
           /\ UNCHANGED hostVars

\* C17: a transport constructed with an expected sender drops every inbound
\* message whose source is another window: onmessage and onerror are not
\* invoked for it and no protocol state changes.
C17_SourceFilter == [][ForeignSourceDropped]_vars

C17_Witness ==
    /\ pmtEventSource = ProxyWindow
    /\ "other" \in Range(pmtDropped)
    /\ pmtEvents = <<>>

\* The payloads of WirePayloads that are no valid JSON-RPC envelope.
Malformed(data) == data.jsonrpc # "2.0"

OneCallback ==
    (PmtHeard /\ (pmtEventSource = Undefined
                    \/ Head(pmtEvents).source = pmtEventSource))
        => IF Malformed(Head(pmtEvents).data)
           THEN /\ pmtErrors' = pmtErrors + 1
                /\ UNCHANGED <<pmtMessages, pmtDropped, pmtCloses, toGuest>>
                /\ UNCHANGED hostVars
           ELSE /\ pmtMessages' = pmtMessages + 1
                /\ UNCHANGED <<pmtErrors, pmtDropped, pmtCloses>>

\* C18: for every inbound message that passes the source filter the started
\* transport invokes exactly one of onmessage (valid envelope) and onerror
\* (malformed); a malformed payload reaches no handler, closes nothing and
\* leaves the requests in flight as they were.
C18_ParseOrError == [][OneCallback]_vars

C18_Witness ==
    /\ pmtErrors > 0
    /\ pmtMessages > 0
    /\ bridgeForwarding # {}
    /\ bridgeListening

\* C19: once close() was called the listener is gone, so nothing more is
\* delivered, and onclose was invoked exactly once however often close() was
\* called.
C19_ClosedOnce ==
    /\ pmtCloses > 0 => ~bridgeListening
    /\ pmtCloses <= 1

BridgeAnsweredInitialize ==
    \E i \in DOMAIN toGuest :
        /\ toGuest[i].type = "response"
        /\ "protocolVersion" \in DOMAIN toGuest[i].body

\* C20: AppBridge.oninitialized is invoked only when the initialized
\* notification arrives, and never before the Bridge has answered a
\* ui/initialize request of that Guest.
C20_ReadyAfterAnswer ==
    /\ bridgeInitialized > 0 => BridgeAnsweredInitialize
    /\ bridgeInitialized <= pmtMessages

\* Whether the backend's capabilities declare what the forwardable `method`
\* belongs to: the category for a request, the category's listChanged flag
\* for a list_changed notification.
Declares(method) ==
    CASE method = "tools/call" -> serverTools
      [] method \in {"resources/list", "resources/templates/list"} ->
            "resources" \in serverFeatures
      [] method = "prompts/list" -> "prompts" \in serverFeatures
      [] method = "notifications/tools/list_changed" ->
            serverTools /\ "tools.listChanged" \in serverFeatures
      [] method = "notifications/resources/list_changed" ->
            {"resources", "resources.listChanged"} \subseteq serverFeatures
      [] method = "notifications/prompts/list_changed" ->
            {"prompts", "prompts.listChanged"} \subseteq serverFeatures

\* C21: once AppBridge.connect() has run, the Bridge holds a forwarder for a
\* forwardable request or list_changed notification exactly when the backend
\* declares its category (resp. its listChanged flag), and before that it
\* holds none; every request the backend was handed, or is working on,
\* belongs to a category the backend declares.
C21_ForwardersAsDeclared ==
    /\ \A method \in ForwardableRequests \cup ForwardableNotifications :
            method \in bridgeHandlers <=> (bridgeListening /\ Declares(method))
    /\ \A i \in DOMAIN serverCalls : Declares(serverCalls[i].method)
    /\ \A f \in bridgeForwarding : Declares(f.method)

C21_Witness ==
    /\ serverTools
    /\ "resources" \notin serverFeatures
    /\ "prompts.listChanged" \in serverFeatures
    /\ "notifications/prompts/list_changed" \in bridgeHandlers
    /\ Len(appRequests) = 2
    /\ appRequests[2].method = "resources/list"
    /\ appRequests[2].outcome.kind = "error"
    /\ appRequests[2].outcome.value.code = "MethodNotFound"
    /\ serverCalls = <<>>

\* The backend calls made for the Guest's request with this id.
CallsFor(id) == {i \in DOMAIN serverCalls : serverCalls[i].id = id}

\* C22: a callServerTool promise that resolved holds exactly the result the
\* backend returned for that tool, and the backend was called exactly once
\* for it; the backend is never called twice for one Guest request, and
\* every call it gets is one the Guest made, with the Guest's tool name.
C22_ToolResultVerbatim ==
    /\ \A k \in DOMAIN appRequests :
            (appRequests[k].method = "tools/call" /\ appRequests[k].state = "resolved")
                => /\ appRequests[k].outcome.value = ToolResult(appRequests[k].params.name)
                   /\ Cardinality(CallsFor(appRequests[k].id)) = 1
    /\ \A i \in DOMAIN serverCalls :
            /\ CallsFor(serverCalls[i].id) = {i}
            /\ \E k \in DOMAIN appRequests :
                    /\ appRequests[k].id = serverCalls[i].id
                    /\ appRequests[k].method = serverCalls[i].method
                    /\ appRequests[k].params.name = serverCalls[i].name

C22_Witness ==
    /\ Len(appRequests) = 3
    /\ appRequests[2].params.name = "x"
    /\ appRequests[3].params.name = "y"
    /\ appRequests[3].state = "resolved"
    /\ appRequests[3].outcome.value = [content |-> "y"]
    /\ appRequests[2].state = "pending"
    /\ Len(serverCalls) = 2

\* C23: a forwarded request the Guest cancelled while its backend call was
\* outstanding has no backend call left, its promise stays rejected with the
\* cancellation, and no response for it is on its way to the Guest or was
\* handed to the Guest's engine.
C23_CancelEndToEnd ==
    \A id \in bridgeAborted :
        /\ \A f \in bridgeForwarding : f.id # id
        /\ \A i \in DOMAIN toGuest : toGuest[i].id # id
        /\ id \notin appIgnored
        /\ \A k \in DOMAIN appRequests :
                appRequests[k].id = id
                    => /\ appRequests[k].outcome.kind = "cancelled"
                       /\ appRequests[k].settles = 1

C23_Witness ==
    /\ bridgeAborted # {}
    /\ Len(serverCalls) = 2
    /\ \E k \in DOMAIN appRequests :
            /\ appRequests[k].id \notin bridgeAborted
            /\ appRequests[k].method = "tools/call"
            /\ appRequests[k].state = "resolved"
    /\ toHost = <<>>
    /\ toGuest = <<>>
    /\ bridgeForwarding = {}

\* A step in which the forwarder's backend call f ends by itself.
CallEnds(f) ==
    /\ f \in bridgeForwarding
    /\ f \notin bridgeForwarding'
    /\ toHost' = toHost

\* C30: when a forwarded call ends, with a result or with a failure, the
\* Guest is sent exactly one message, a response or a structured error
\* carrying the request's id (an error when the call failed); the Bridge
\* stays connected with its handlers, and its other calls stay in flight.
\* No id ever has more than one answer on its way or handed over.
C30_HandlerFailure ==
    /\ [][\A f \in bridgeForwarding :
            CallEnds(f)
                => /\ \E r \in {Response(f.id, BackendResult(f)),
                                ErrorResponse(f.id, [code |-> "ToolFailed"])} :
                            toGuest' = Append(toGuest, r)
                   /\ bridgeForwarding' = bridgeForwarding \ {f}
                   /\ UNCHANGED <<bridgeListening, bridgeHandlers, bridgeInitialized,
                                  appCapabilities>>
                   /\ UNCHANGED guestVars]_vars
    /\ [](\A i, j \in DOMAIN toGuest :
            (i # j /\ toGuest[i].id = toGuest[j].id) => toGuest[i].id = NoId)
    /\ [](\A i \in DOMAIN toGuest, k \in DOMAIN appRequests :
            toGuest[i].id = appRequests[k].id
                => appRequests[k].outcome.kind \notin {"result", "error", "invalid"})

C30_Witness ==
    /\ Len(appRequests) = 3
    /\ appRequests[2].outcome = Outcome("error", [code |-> "ToolFailed"])
    /\ appRequests[3].state = "resolved"
    /\ bridgeListening
    /\ "tools/call" \in bridgeHandlers
    /\ appTransport = "attached"

\* C24: the Guest's handlers observe the Host's notifications in the order
\* the Host sent them, each at most once and as the method it was sent as,
\* so a tool-input sent before a tool-result is observed before it, directly
\* and through the Sandbox Proxy's relay; and a tool-result the Host sends
\* with no tool-input before it is posted like any other notification.
C24_ToolInputBeforeResult ==
    /\ [](\A i \in DOMAIN appSeen :
            /\ appSeen[i].params.nth \in DOMAIN bridgeSent
            /\ appSeen[i].method = bridgeSent[appSeen[i].params.nth].method
            /\ \A j \in DOMAIN appSeen :
                    i < j => appSeen[i].params.nth < appSeen[j].params.nth)
    /\ [][Len(bridgeSent') > Len(bridgeSent)
            => /\ toGuest' # toGuest
               /\ toGuest'[Len(toGuest')].method = bridgeSent'[Len(bridgeSent')].method
               /\ toGuest'[Len(toGuest')].body.nth = Len(bridgeSent')]_vars

\* Behind the Sandbox Proxy the Guest has observed a tool-result that no
\* tool-input preceded, then a tool-input and its tool-result.
C24_Witness ==
    /\ proxyPc = "running"
    /\ Len(appSeen) = 3
    /\ appSeen[1].method = TOOL_RESULT_NOTIFICATION
    /\ appSeen[2].method = TOOL_INPUT_NOTIFICATION
    /\ appSeen[3].method = TOOL_RESULT_NOTIFICATION

\* The n-th notification of the Host has been observed by a Guest handler.
SeenNth(n) == \E i \in DOMAIN appSeen : appSeen[i].params.nth = n

\* msg is one of the notifications a session's Host sends of its own accord.
IsSessionNotification(msg) ==
    msg.type = "notification" /\ msg.method \in AppNotificationMethods

\* The n-th notification of the Host is still on its way to the Guest.
InFlightNth(n) ==
    \/ \E i \in DOMAIN toGuest : IsSessionNotification(toGuest[i]) /\ toGuest[i].body.nth = n
    \/ \E i \in DOMAIN proxyEvents :
            /\ proxyEvents[i].source = "parent"
            /\ IsSessionNotification(proxyEvents[i].data)
            /\ proxyEvents[i].data.body.nth = n
    \/ \E i \in DOMAIN proxyToInner :
            /\ i > guestRelayed
            /\ IsSessionNotification(proxyToInner[i])
            /\ proxyToInner[i].body.nth = n

\* C25: a notification the Host sends once it has been initialized, of a
\* method whose handler was registered before connect(), is observed by that
\* handler or still on its way to it: none is dropped, also not before
\* connect() has resolved.
C25_EarlyHandlerMissesNothing ==
    \A n \in DOMAIN bridgeSent :
        (bridgeSent[n].live /\ bridgeSent[n].method \in appEarlyHandlers)
            => (SeenNth(n) \/ InFlightNth(n))

\* A handler registered before connect() has observed a notification the
\* initialized Host sent, before connect() resolved; and a notification of
\* the other method, whose handler was not registered by then, is lost.
C25_Witness ==
    /\ connectPc = "initializedSent"
    /\ \E n \in DOMAIN bridgeSent :
            /\ bridgeSent[n].live
            /\ bridgeSent[n].method \in appEarlyHandlers
            /\ SeenNth(n)
    /\ \E n \in DOMAIN bridgeSent :
            /\ bridgeSent[n].live
            /\ bridgeSent[n].method \notin appEarlyHandlers
            /\ ~SeenNth(n)
            /\ ~InFlightNth(n)

\* C26: registering a handler for ui/resource-teardown on the App does not
\* throw, and the promise of sendResourceTeardown() is never rejected by an
\* error response: it resolves on the Guest's acknowledgement or times out.
C26_TeardownAcknowledged ==
    /\ "ui/resource-teardown" \notin appThrown
    /\ bridgeTeardown # "rejected"

\* C27: no animation frame sends more than one size-change notification,
\* however many sizes the observers report before it.
C27_OneSizeChangePerFrame == frameSizeChanges <= 1

\* In the build with the `scheduled` flag no frame sends more than one
\* size-change notification and no more than one callback is ever queued.
C27_ScheduledBuildDebounces ==
    appBuild = "scheduled"
        => /\ frameSizeChanges <= 1
           /\ rafQueue <= 1
           /\ resizeScheduled <=> (rafQueue = 1)

\* C28: on an App without the tools capability no handler for tools/call or
\* tools/list is ever registered and an attempt throws at once; on an App
\* with the capability the registration never throws.
C28_ToolHandlersNeedCapability ==
    /\ [](guestCapabilities = "{}" => ToolMethods \cap appHandlers = {})
    /\ [](guestCapabilities = "{tools:{}}" => ToolMethods \cap appThrown = {})
    /\ [][\A method \in ToolMethods :
            /\ (guestCapabilities = "{}" /\ method \in appHandlers')
                    => method \in appHandlers
            /\ (method \in appThrown' /\ method \notin appThrown)
                    => (guestCapabilities = "{}" /\ appHandlers' = appHandlers)]_vars

\* An App without the tools capability on which both registrations threw.
C28_Witness ==
    /\ guestCapabilities = "{}"
    /\ ToolMethods \subseteq appThrown
    /\ ToolMethods \cap appHandlers = {}

\* The methods the Host's declared capabilities cover: the bridge's own, and
\* tools/call with the tools capability.
Covered(capabilities, method) ==
    \/ method \in {"ui/initialize", "ui/notifications/initialized", "ping"}
    \/ method = "tools/call" /\ capabilities = "{tools:{}}"

\* C29: the AppBridge holds no handler for a method its declared
\* capabilities do not cover.
C29_UncoveredRejected ==
    \A method \in bridgeHandlers : Covered(bridgeCapabilities, method)

\* msg is a ping request.
IsPing(msg) == msg.type = "request" /\ msg.method = "ping"

\* C31: whenever a ping request is dispatched at an endpoint whose transport
\* is listening, the endpoint posts a response with the ping's id and the
\* empty result, whatever either side declared and at whatever stage the
\* handshake is.
C31_PingAnswered ==
    /\ [][(toHost # <<>> /\ toHost' = Tail(toHost) /\ IsPing(Head(toHost))
            /\ bridgeListening)
            => toGuest' = Append(toGuest, Response(Head(toHost).id, HandlerResult))]_vars
    /\ [][(toGuest # <<>> /\ toGuest' = Tail(toGuest) /\ IsPing(Head(toGuest))
            /\ guestListening)
            => toHost' = Append(toHost, Response(Head(toGuest).id, HandlerResult))]_vars

\* Before the Bridge has been told "initialized", the Guest's ping was
\* answered with the empty result and the Guest has answered a ping of the
\* Bridge.
C31_Witness ==
    /\ bridgeInitialized = 0
    /\ \E k \in DOMAIN appRequests :
            /\ appRequests[k].method = "ping"
            /\ appRequests[k].state = "resolved"
            /\ appRequests[k].outcome.value = HandlerResult
    /\ \E i \in DOMAIN toHost :
            toHost[i] = Response(0, HandlerResult)

\* The state of the Guest endpoint, read off its transport and connect().
GuestState ==
    IF appTransport = "none" /\ guestCloses > 0 THEN "Closed"
    ELSE CASE connectPc = "idle" -> "Disconnected"
           [] connectPc = "awaitInit" -> "AwaitingHandshakeResult"
           [] connectPc \in {"initializedSent", "resolved"} -> "Initialized"
           [] OTHER -> "Closed"

\* The place of the Guest's state in Disconnected, Connecting,
\* AwaitingHandshakeResult, Initialized, Closed.
GuestRank ==
    CASE GuestState = "Disconnected" -> 0
      [] GuestState = "AwaitingHandshakeResult" -> 2
      [] GuestState = "Initialized" -> 3
      [] GuestState = "Closed" -> 4

\* C32: the Guest endpoint's state never moves back along Disconnected,
\* Connecting, AwaitingHandshakeResult, Initialized, Closed; in particular
\* Closed is never left.
C32_ForwardOnly == [][GuestRank' >= GuestRank]_vars

\* The part of it that holds: short of Closed the state only moves forward,
\* and Initialized is entered only from AwaitingHandshakeResult, by the step
\* that stores a valid ui/initialize result.
C32_ForwardUntilClosed ==
    /\ [][GuestState # "Closed" => GuestRank' >= GuestRank]_vars
    /\ [][(GuestState # "Initialized" /\ GuestState' = "Initialized")
            => /\ GuestState = "AwaitingHandshakeResult"
               /\ appRequests'[InitializeIndex(appRequests')].state = "resolved"
               /\ ValidInitializeResult(
                    appRequests'[InitializeIndex(appRequests')].outcome.value)]_vars

\* C33: AppBridge.connect() throws exactly when the client has no server
\* capabilities, and a Bridge whose client has none never holds a forwarder
\* and never listens.
C33_ConnectNeedsCapabilities ==
    /\ bridgeConnectThrew => ~serverAvailable
    /\ bridgeListening => (serverAvailable /\ ~bridgeConnectThrew)
    /\ ~serverAvailable
            => /\ ~bridgeListening
               /\ bridgeHandlers = {"ui/initialize", "ping"}

\* connect() threw, and the Guest's ui/initialize request waits at a Host
\* that does not listen.
C33_Witness ==
    /\ bridgeConnectThrew
    /\ ~bridgeListening
    /\ bridgeHandlers = {"ui/initialize", "ping"}
    /\ toHost # <<>>

\* C34: an App whose options do not set autoResize to false - no options
\* argument, or an options object without autoResize - observes its size
\* once connect() has resolved; an App with autoResize false never observes
\* and never queues or sends a size-change notification.
C34_AutoResizeByDefault ==
    /\ (autoResize # "false" /\ connectPc = "resolved") => resizeObserving
    /\ autoResize = "false"
            => (~resizeObserving /\ rafQueue = 0 /\ frameSizeChanges = 0)

\* The part of it that holds: the App observes its size after connect()
\* exactly when its options hold autoResize true, which the missing argument
\* defaults to.
C34_AutoResizeWhenTrue ==
    /\ (autoResize = "true" /\ connectPc = "resolved") => resizeObserving
    /\ autoResize # "true"
            => (~resizeObserving /\ rafQueue = 0 /\ frameSizeChanges = 0)

\* C37: an animation-frame callback of the size reporting runs only in the
\* session: after the initialized notification was sent, and while the
\* Guest's transport is attached.
C37_ConfinedToSession ==
    [][(rafQueue > 0 /\ rafQueue' = 0)
        => /\ Includes(appLog, "initializedSent")
           /\ appTransport = "attached"]_vars

\* The part of it that holds: nothing is observed, queued or sent before
\* the initialized notification was sent.
C37_NotBeforeInitialized ==
    (resizeObserving \/ rafQueue > 0 \/ frameSizeChanges > 0)
        => Includes(appLog, "initializedSent")

\* C36: a notification dispatched at the Guest invokes at most one callback,
\* the one assigned last to its method's setter, and no notification is
\* handed to a callback twice.
C36_OneHandlerPerMethod ==
    /\ [](\A i, j \in DOMAIN appSeen :
            appSeen[i].params.nth = appSeen[j].params.nth => i = j)
    /\ [][appSeen' # appSeen
            => /\ toGuest # <<>>
               /\ appSeen' = Append(appSeen,
                                    [method |-> Head(toGuest).method,
                                     params |-> Head(toGuest).body,
                                     callback |-> appCallback[Head(toGuest).method]])]_vars

\* One setter was assigned twice, and of two notifications of its method
\* the first went to the first callback and the second to the second.
C36_Witness ==
    \E i, j \in DOMAIN appSeen :
        /\ i < j
        /\ appSeen[i].method = appSeen[j].method
        /\ appSeen[i].callback = 1
        /\ appSeen[j].callback = 2
        /\ appCallback[appSeen[j].method] = 2

ControlPosts ==
    Cardinality({i \in DOMAIN proxyToParent :
                    proxyToParent[i].method \in {PROXY_READY_NOTIFICATION,
                                                 RESOURCE_READY_NOTIFICATION}})

\* C38: a sandbox control message reaches the Host from the proxy's window
\* only when the proxy's script posts its own ready notification; nothing
\* the nested frame posts adds one.
C38_ReadyFromProxyOnly ==
    [][ControlPosts' > ControlPosts => PostsOwnReady]_vars

\* The relay hands on what the nested frame posted as it is: a message that
\* reached the Host and is not the proxy's own ready notification is the
\* payload of a message event from the nested frame.
C38_RelayVerbatim ==
    [][(Len(proxyToParent') > Len(proxyToParent) /\ ~PostsOwnReady)
          => /\ HeardFromInner
             /\ proxyToParent' = Append(proxyToParent, Head(proxyEvents).data)]_vars

\* C39: a PostMessageTransport constructed without an expected sender
\* filters nothing: a valid JSON-RPC message in a message event from any
\* window goes to onmessage, and no event is dropped for its source.
C39_NoFilterWithoutSender ==
    /\ [](pmtEventSource = Undefined => pmtDropped = <<>>)
    /\ [][(PmtHeard /\ pmtEventSource = Undefined /\ ~Malformed(Head(pmtEvents).data))
            => /\ pmtMessages' = pmtMessages + 1
               /\ UNCHANGED <<pmtDropped, pmtErrors>>]_vars

\* A transport without an expected sender has handed to onmessage a message
\* that a window other than the Proxy posted: the Proxy relayed nothing.
C39_Witness ==
    /\ pmtEventSource = Undefined
    /\ pmtRelayed = 1
    /\ pmtPosted > 0
    /\ pmtMessages > 0
    /\ pmtEvents = <<>>

\* The Bridge's engine takes in a list_changed notification of the Guest.
ListChangedHeard ==
    /\ toHost # <<>>
    /\ toHost' = Tail(toHost)
    /\ bridgeListening
    /\ Head(toHost).type = "notification"
    /\ Head(toHost).method \in ForwardableNotifications

====
